---- MODULE Spec2Model ----
(***************************************************************************)
(* NanaSQLite (src/src/nanasqlite/core.py): a dict facade over one SQLite  *)
(* key/value table with an in-process cache (_data, _cached_keys,          *)
(* _all_loaded).  One handle on one file; the file outlives the handle and *)
(* can be re-opened after close().                                         *)
(***************************************************************************)
EXTENDS Integers, Sequences, FiniteSets, TLC

(* ------------------------------ bounds -------------------------------- *)

\* longest mapping / key list handed to update, batch_update, batch_delete
MaxBatch == 2
\* most calls looked at after a clear() before the closing to_dict()
MaxLater == 3
MaxRows == 2
\* the writes an async behaviour submits
MaxWrites == 3
Keys == {"a", "b"}

\* a key apsw cannot bind as a statement parameter, e.g. the tuple ("a",)
BadKey == "<tuple>"

(* --------------------------- Python values ---------------------------- *)

PyNone == <<"none", 0>>
PyTrue == <<"bool", 1>>
PyFalse == <<"bool", 0>>
PyBool(b) == IF b THEN PyTrue ELSE PyFalse
PyInt(n) == <<"int", n>>
\* object(): a value json.dumps rejects with TypeError
PyObject == <<"object", 0>>

\* the JSON values written: null and a number
JsonValues == {PyNone, PyInt(1)}
PyValues == JsonValues \cup {PyObject}

EmptyDict == [k \in {} |-> PyNone]
DictSet(d, k, v) == [x \in (DOMAIN d) \cup {k} |-> IF x = k THEN v ELSE d[x]]
DictDel(d, k) == [x \in (DOMAIN d) \ {k} |-> d[x]]

(* ------------------------------- codec -------------------------------- *)

Digits == <<"1", "2", "3", "4", "5", "6", "7", "8", "9">>

Serializable(value) == value[1] \in {"none", "int"}

\* json.dumps(value, ensure_ascii=False)
Serialize(value) ==
    IF value[1] = "none" THEN "null" ELSE Digits[value[2]]

\* json.loads(text)
Deserialize(text) ==
    IF text = "null" THEN PyNone
    ELSE PyInt(CHOOSE n \in 1..Len(Digits) : Digits[n] = text)

(* ------------------------------- state -------------------------------- *)

VARIABLES
    data,         \* self._data: dict key -> Python value
    cached_keys,  \* self._cached_keys
    all_loaded,   \* self._all_loaded
    rows,         \* the table as the connection sees it: key -> JSON text
    disk,         \* the committed table, what a new connection sees
    in_txn,       \* the connection has an open transaction
    closed,       \* self._connection was closed
    ctx,          \* control is inside a `with db.transaction():` block
    last,         \* the call that just returned: name, key, argument, exception
    threads,      \* per thread: the call it is inside and how far it has got
    peer,         \* a second handle (own connection and cache) on the same file
    wlock,        \* the connection holding the file's write lock, 0 when free
    aux,          \* the auxiliary table of the file: its columns and rows
    executed,     \* the statements the last SQL helper passed to execute()
    warned,       \* the warnings the last SQL helper emitted
    queue,        \* async: the operations submitted to the primary connection
    pool,         \* async: per read-only connection, the read that holds it
    tasks,        \* async: per caller, what it awaits and what it got
    stamp         \* async: the number of writes submitted so far

vars ==
    <<data, cached_keys, all_loaded, rows, disk, in_txn, closed, ctx, last,
      threads, peer, wlock, aux, executed, warned, queue, pool, tasks, stamp>>

\* the variables of the async facade
asyncVars == <<queue, pool, tasks, stamp>>

\* the handle and its connection as one value
Cur ==
    [data |-> data, cached_keys |-> cached_keys, all_loaded |-> all_loaded,
     rows |-> rows, disk |-> disk, in_txn |-> in_txn, closed |-> closed]

Nxt ==
    [data |-> data', cached_keys |-> cached_keys', all_loaded |-> all_loaded',
     rows |-> rows', disk |-> disk', in_txn |-> in_txn', closed |-> closed']

NoExc == "none"

\* a call's outcome: the state it leaves, the exception it raised, its value
Ok(s, ret) == [s |-> s, exc |-> NoExc, ret |-> ret]
Raise(s, exc) == [s |-> s, exc |-> exc, ret |-> PyNone]

(* ------------------------------ engine -------------------------------- *)

\* a data statement's effect on the table: in autocommit it is committed at once
Store(s, newRows) ==
    IF s.in_txn THEN [s EXCEPT !.rows = newRows]
    ELSE [s EXCEPT !.rows = newRows, !.disk = newRows]

\* self._connection.execute of a writing statement; engineOk = FALSE when the
\* engine rejects it (apsw.BusyError: another connection holds the write lock)
ExecWrite(s, newRows, engineOk) ==
    IF s.closed THEN Raise(s, "ConnectionClosedError")
    ELSE IF ~engineOk THEN Raise(s, "BusyError")
    ELSE Ok(Store(s, newRows), PyNone)

SqlBegin(s) ==
    IF s.closed THEN Raise(s, "ConnectionClosedError")
    ELSE IF s.in_txn THEN Raise(s, "SQLError")
    ELSE Ok([s EXCEPT !.in_txn = TRUE], PyNone)

SqlCommit(s) ==
    IF s.closed THEN Raise(s, "ConnectionClosedError")
    ELSE IF ~s.in_txn THEN Raise(s, "SQLError")
    ELSE Ok([s EXCEPT !.in_txn = FALSE, !.disk = s.rows], PyNone)

SqlRollback(s) ==
    IF s.closed THEN Raise(s, "ConnectionClosedError")
    ELSE IF ~s.in_txn THEN Raise(s, "SQLError")
    ELSE Ok([s EXCEPT !.in_txn = FALSE, !.rows = s.disk], PyNone)

(* --------------------------- private methods -------------------------- *)

\* as _write_to_db, but the statement is never executed
WriteToDbNoExecute(s, key, value, engineOk) ==
    IF ~Serializable(value) THEN Raise(s, "TypeError")
    ELSE IF s.closed THEN Raise(s, "ConnectionClosedError")
    ELSE Ok(s, PyNone)

WriteToDb(s, key, value, engineOk) ==
    IF ~Serializable(value) THEN Raise(s, "TypeError")
    ELSE ExecWrite(s, DictSet(s.rows, key, Serialize(value)), engineOk)

\* returns None both for a missing row and for a row holding JSON null
ReadFromDb(s, key) ==
    IF s.closed THEN Raise(s, "ConnectionClosedError")
    ELSE IF key \notin DOMAIN s.rows THEN Ok(s, PyNone)
    ELSE Ok(s, Deserialize(s.rows[key]))

DeleteFromDb(s, key, engineOk) ==
    ExecWrite(s, DictDel(s.rows, key), engineOk)

GetAllKeysFromDb(s) ==
    IF s.closed THEN Raise(s, "ConnectionClosedError")
    ELSE Ok(s, DOMAIN s.rows)

\* as _ensure_cached, but a key without a cached value is read from the
\* table every time
EnsureCachedRereads(s, key) ==
    IF key \in DOMAIN s.data THEN Ok(s, TRUE)
    ELSE LET r == ReadFromDb(s, key)
             s1 == [s EXCEPT !.cached_keys = @ \cup {key}]
         IN  IF r.exc # NoExc THEN Raise(s, r.exc)
             ELSE IF r.ret # PyNone
                  THEN Ok([s1 EXCEPT !.data = DictSet(@, key, r.ret)], TRUE)
                  ELSE Ok(s1, FALSE)

\* as _ensure_cached, but a key whose row was found is not added to
\* _cached_keys
EnsureCachedUnmarked(s, key) ==
    IF key \in s.cached_keys THEN Ok(s, key \in DOMAIN s.data)
    ELSE LET r == ReadFromDb(s, key)
         IN  IF r.exc # NoExc THEN Raise(s, r.exc)
             ELSE IF r.ret # PyNone
                  THEN Ok([s EXCEPT !.data = DictSet(@, key, r.ret)], TRUE)
                  ELSE Ok([s EXCEPT !.cached_keys = @ \cup {key}], FALSE)

\* ret: whether the key exists (a Boolean)
EnsureCached(s, key) ==
    IF key \in s.cached_keys THEN Ok(s, key \in DOMAIN s.data)
    ELSE LET r == ReadFromDb(s, key)
             s1 == [s EXCEPT !.cached_keys = @ \cup {key}]
         IN  IF r.exc # NoExc THEN Raise(s, r.exc)
             ELSE IF r.ret # PyNone
                  THEN Ok([s1 EXCEPT !.data = DictSet(@, key, r.ret)], TRUE)
                  ELSE Ok(s1, FALSE)

(* --------------------------- dict interface --------------------------- *)

GetItem(s, key) ==
    LET e == EnsureCached(s, key)
    IN  IF e.exc # NoExc THEN e
        ELSE IF e.ret THEN Ok(e.s, e.s.data[key])
        ELSE Raise(e.s, "KeyError")

SetItem(s, key, value, engineOk) ==
    LET s1 == [s EXCEPT !.data = DictSet(@, key, value),
                        !.cached_keys = @ \cup {key}]
    IN  WriteToDb(s1, key, value, engineOk)

DelItem(s, key, engineOk) ==
    LET e == EnsureCached(s, key)
    IN  IF e.exc # NoExc THEN e
        ELSE IF ~e.ret THEN Raise(e.s, "KeyError")
        ELSE LET s1 == [e.s EXCEPT !.data = DictDel(@, key),
                                   !.cached_keys = @ \cup {key}]
             IN  DeleteFromDb(s1, key, engineOk)

Contains(s, key) ==
    LET e == EnsureCached(s, key)
    IN  IF e.exc # NoExc THEN e ELSE Ok(e.s, PyBool(e.ret))

Get(s, key, default) ==
    LET e == EnsureCached(s, key)
    IN  IF e.exc # NoExc THEN e
        ELSE IF e.ret THEN Ok(e.s, e.s.data[key])
        ELSE Ok(e.s, default)

\* pop(key) has no default (hasDefault = FALSE) or pop(key, default)
Pop(s, key, hasDefault, default, engineOk) ==
    LET e == EnsureCached(s, key)
    IN  IF e.exc # NoExc THEN e
        ELSE IF e.ret
             THEN LET value == e.s.data[key]
                      s1 == [e.s EXCEPT !.data = DictDel(@, key)]
                      d == DeleteFromDb(s1, key, engineOk)
                  IN  IF d.exc # NoExc THEN d ELSE Ok(d.s, value)
        ELSE IF hasDefault THEN Ok(e.s, default)
        ELSE Raise(e.s, "KeyError")

\* items: mapping.items(), then kwargs.items()
RECURSIVE UpdateFrom(_, _, _)
UpdateFrom(s, items, i) ==
    IF i > Len(items) THEN Ok(s, PyNone)
    ELSE LET w == SetItem(s, items[i][1], items[i][2], TRUE)
         IN  IF w.exc # NoExc THEN w ELSE UpdateFrom(w.s, items, i + 1)

Update(s, items) == UpdateFrom(s, items, 1)

Clear(s, engineOk) ==
    LET s1 == [s EXCEPT !.data = EmptyDict, !.cached_keys = {},
                        !.all_loaded = FALSE]
    IN  ExecWrite(s1, [k \in {} |-> "null"], engineOk)

SetDefault(s, key, default, engineOk) ==
    LET e == EnsureCached(s, key)
    IN  IF e.exc # NoExc THEN e
        ELSE IF e.ret THEN Ok(e.s, e.s.data[key])
        ELSE LET w == SetItem(e.s, key, default, engineOk)
             IN  IF w.exc # NoExc THEN w ELSE Ok(w.s, default)

\* as __len__, but counting the cache: len(self._data)
LengthOfCache(s) ==
    IF s.closed THEN Raise(s, "ConnectionClosedError")
    ELSE Ok(s, PyInt(Cardinality(DOMAIN s.data)))

Length(s) ==
    IF s.closed THEN Raise(s, "ConnectionClosedError")
    ELSE Ok(s, PyInt(Cardinality(DOMAIN s.rows)))

\* as keys, but loading every row into the cache first, as values() does
KeysAfterLoadAll(s) ==
    IF s.closed THEN Raise(s, "ConnectionClosedError")
    ELSE Ok([s EXCEPT !.data = [k \in DOMAIN s.rows |-> Deserialize(s.rows[k])],
                      !.cached_keys = @ \cup DOMAIN s.rows,
                      !.all_loaded = TRUE],
            DOMAIN s.rows)

KeysOf(s) == GetAllKeysFromDb(s)

\* __iter__: iter(self.keys())
Iter(s) == KeysOf(s)

(* --------------------------- special methods -------------------------- *)

\* as load_all, but without the early return on _all_loaded
LoadAllAlwaysReads(s) ==
    IF s.closed THEN Raise(s, "ConnectionClosedError")
    ELSE Ok([s EXCEPT
                !.data = [k \in (DOMAIN s.data) \cup (DOMAIN s.rows) |->
                             IF k \in DOMAIN s.rows THEN Deserialize(s.rows[k])
                             ELSE s.data[k]],
                !.cached_keys = @ \cup DOMAIN s.rows,
                !.all_loaded = TRUE], PyNone)

LoadAll(s) ==
    IF s.all_loaded THEN Ok(s, PyNone)
    ELSE IF s.closed THEN Raise(s, "ConnectionClosedError")
    ELSE Ok([s EXCEPT
                !.data = [k \in (DOMAIN s.data) \cup (DOMAIN s.rows) |->
                             IF k \in DOMAIN s.rows THEN Deserialize(s.rows[k])
                             ELSE s.data[k]],
                !.cached_keys = @ \cup DOMAIN s.rows,
                !.all_loaded = TRUE], PyNone)

\* refresh(key)
RefreshKey(s, key) ==
    LET s1 == [s EXCEPT !.cached_keys = @ \ {key}, !.data = DictDel(@, key)]
        e == EnsureCached(s1, key)
    IN  IF e.exc # NoExc THEN Raise(s1, e.exc) ELSE Ok(e.s, PyNone)

\* refresh()
RefreshAll(s) ==
    Ok([s EXCEPT !.data = EmptyDict, !.cached_keys = {}, !.all_loaded = FALSE],
       PyNone)

IsCached(s, key) == Ok(s, PyBool(key \in s.cached_keys))

\* the statements of batch_update's loop from element i on
RECURSIVE BatchUpdateFrom(_, _, _)
BatchUpdateFrom(s, items, i) ==
    IF i > Len(items) THEN Ok(s, PyNone)
    ELSE LET key == items[i][1]
             value == items[i][2]
         IN  IF ~Serializable(value) THEN Raise(s, "TypeError")
             ELSE BatchUpdateFrom(
                      [s EXCEPT !.rows = DictSet(@, key, Serialize(value)),
                                !.data = DictSet(@, key, value),
                                !.cached_keys = @ \cup {key}],
                      items, i + 1)

\* as batch_update, but BEGIN IMMEDIATE is inside the try block: its failure
\* runs the handler's ROLLBACK
BatchUpdateBeginInTry(s, items) ==
    LET b == SqlBegin(s)
    IN  IF b.exc # NoExc THEN Raise(SqlRollback(b.s).s, b.exc)
        ELSE LET l == BatchUpdateFrom(b.s, items, 1)
             IN  IF l.exc # NoExc THEN Raise(SqlRollback(l.s).s, l.exc)
                 ELSE SqlCommit(l.s)

BatchUpdate(s, items) ==
    LET b == SqlBegin(s)
    IN  IF b.exc # NoExc THEN b
        ELSE LET l == BatchUpdateFrom(b.s, items, 1)
             IN  IF l.exc # NoExc THEN Raise(SqlRollback(l.s).s, l.exc)
                 ELSE SqlCommit(l.s)

\* the statements of batch_delete's loop from element i on
RECURSIVE BatchDeleteFrom(_, _, _)
BatchDeleteFrom(s, keys, i) ==
    IF i > Len(keys) THEN Ok(s, PyNone)
    ELSE LET key == keys[i]
         IN  IF key = BadKey THEN Raise(s, "TypeError")
             ELSE BatchDeleteFrom(
                      [s EXCEPT !.rows = DictDel(@, key),
                                !.data = DictDel(@, key),
                                !.cached_keys = @ \ {key}],
                      keys, i + 1)

BatchDelete(s, keys) ==
    LET b == SqlBegin(s)
    IN  IF b.exc # NoExc THEN b
        ELSE LET l == BatchDeleteFrom(b.s, keys, 1)
             IN  IF l.exc # NoExc THEN Raise(SqlRollback(l.s).s, l.exc)
                 ELSE SqlCommit(l.s)

\* a returned container: alias = TRUE would mean the caller holds self._data
\* itself, FALSE that it holds a copy made at the time of the call
Copy(d) == [alias |-> FALSE, val |-> d]

ToDict(s) ==
    LET l == LoadAll(s)
    IN  IF l.exc # NoExc THEN l ELSE Ok(l.s, Copy(l.s.data))

Items(s) ==
    LET l == LoadAll(s)
    IN  IF l.exc # NoExc THEN l ELSE Ok(l.s, Copy(l.s.data))

\* list(self._data.values()): the values with their multiplicities
ValuesOf(d) ==
    [v \in {d[k] : k \in DOMAIN d} |-> Cardinality({k \in DOMAIN d : d[k] = v})]

Values(s) ==
    LET l == LoadAll(s)
    IN  IF l.exc # NoExc THEN l ELSE Ok(l.s, ValuesOf(l.s.data))

(* ----------------------------- direct SQL ----------------------------- *)

\* the statements handed to execute(): an upsert of a row, a delete of a row,
\* and a text the engine cannot parse
Upsert(key, text) == <<"INSERT OR REPLACE", key, text>>
DeleteRow(key) == <<"DELETE", key>>
BadSql == <<"SELEC">>

\* as execute, but a statement that went through makes the handle forget
\* what it has cached
ExecuteForgets(s, sql, engineOk) ==
    IF s.closed THEN Raise(s, "ConnectionClosedError")
    ELSE IF sql = BadSql THEN Raise(s, "SQLError")
    ELSE LET s1 == [s EXCEPT !.data = EmptyDict, !.cached_keys = {},
                             !.all_loaded = FALSE]
         IN  IF sql[1] = "DELETE"
             THEN ExecWrite(s1, DictDel(s.rows, sql[2]), engineOk)
             ELSE ExecWrite(s1, DictSet(s.rows, sql[2], sql[3]), engineOk)

\* execute(sql, parameters): the statement goes to the connection as it is;
\* the cache is not touched
Execute(s, sql, engineOk) ==
    IF s.closed THEN Raise(s, "ConnectionClosedError")
    ELSE IF sql = BadSql THEN Raise(s, "SQLError")
    ELSE IF sql[1] = "DELETE"
         THEN ExecWrite(s, DictDel(s.rows, sql[2]), engineOk)
         ELSE ExecWrite(s, DictSet(s.rows, sql[2], sql[3]), engineOk)

\* the result of fetchone() and of fetchall() on the cursor of a statement
\* that returns no row
NoRows == <<"list", 0>>

\* fetch_one(sql, parameters): execute(), then the cursor's first row
FetchOne(s, sql, engineOk) ==
    LET r == Execute(s, sql, engineOk)
    IN  IF r.exc # NoExc THEN r ELSE Ok(r.s, PyNone)

\* fetch_all(sql, parameters): execute(), then the cursor's rows
FetchAll(s, sql, engineOk) ==
    LET r == Execute(s, sql, engineOk)
    IN  IF r.exc # NoExc THEN r ELSE Ok(r.s, NoRows)

\* the statements of execute_many's loop from element i on, for the sql
\* "INSERT OR REPLACE INTO data (key, value) VALUES (?, ?)"; a parameter tuple
\* of another length is rejected with apsw.BindingsError
RECURSIVE ExecuteManyFrom(_, _, _)
ExecuteManyFrom(s, parameters_list, i) ==
    IF i > Len(parameters_list) THEN Ok(s, PyNone)
    ELSE LET parameters == parameters_list[i]
         IN  IF Len(parameters) # 2 THEN Raise(s, "BindingsError")
             ELSE ExecuteManyFrom(
                      [s EXCEPT !.rows = DictSet(@, parameters[1], parameters[2])],
                      parameters_list, i + 1)

\* as execute_many, but without the except clause: a failing parameter set
\* ends the call where it stands
ExecuteManyNoRollback(s, parameters_list) ==
    LET b == SqlBegin(s)
    IN  IF b.exc # NoExc THEN b
        ELSE LET l == ExecuteManyFrom(b.s, parameters_list, 1)
             IN  IF l.exc # NoExc THEN l ELSE SqlCommit(l.s)

ExecuteMany(s, parameters_list) ==
    LET b == SqlBegin(s)
    IN  IF b.exc # NoExc THEN b
        ELSE LET l == ExecuteManyFrom(b.s, parameters_list, 1)
             IN  IF l.exc # NoExc THEN Raise(SqlRollback(l.s).s, l.exc)
                 ELSE SqlCommit(l.s)

(* ------------------------- transaction control ------------------------ *)

BeginTransaction(s) == SqlBegin(s)

Commit(s) == SqlCommit(s)

Rollback(s) == SqlRollback(s)

\* _TransactionContext.__enter__
TxnEnter(s) == BeginTransaction(s)

\* as __exit__, but exc_type is ignored: the block is committed on both paths
TxnExitAlwaysCommit(s, raised) ==
    LET r == Commit(s)
    IN  IF r.exc # NoExc THEN r ELSE Ok(r.s, PyFalse)

\* _TransactionContext.__exit__; raised: the block ended by an exception.
\* It returns False: the exception is not swallowed.
TxnExit(s, raised) ==
    LET r == IF raised THEN Rollback(s) ELSE Commit(s)
    IN  IF r.exc # NoExc THEN r ELSE Ok(r.s, PyFalse)

(* ------------------------------ lifecycle ----------------------------- *)

\* apsw rolls an open transaction back when the connection closes; closing a
\* closed connection does nothing
Close(s) ==
    Ok([s EXCEPT !.closed = TRUE, !.in_txn = FALSE, !.rows = s.disk], PyNone)

\* NanaSQLite(db_path, table, bulk_load) on the file a closed handle left
Open(s, bulk_load) ==
    LET s1 == [data |-> EmptyDict, cached_keys |-> {}, all_loaded |-> FALSE,
               rows |-> s.disk, disk |-> s.disk, in_txn |-> FALSE,
               closed |-> FALSE]
    IN  IF bulk_load THEN LoadAll(s1) ELSE Ok(s1, PyNone)

(* -------------------------- threads and handles ----------------------- *)

\* Threads share Python objects and switch between bytecodes and whenever apsw
\* releases the GIL around a statement: a call runs as a sequence of steps, a
\* step being one cache access or one statement.
Threads == {1, 2}

\* a thread's frame: the call it runs, the place in it, its arguments and locals
Idle ==
    [op |-> "idle", pc |-> "", key |-> "", val |-> PyNone, items |-> <<>>,
     exc |-> NoExc]

Frame(op, pc, key, val, items) ==
    [op |-> op, pc |-> pc, key |-> key, val |-> val, items |-> items,
     exc |-> NoExc]

\* the call has returned (exc = NoExc) or raised exc
Returned(f, exc) ==
    [f EXCEPT !.pc = "returned", !.exc = exc, !.items = <<>>]

\* NanaSQLite(db_path) on a new file
NewHandle ==
    [data |-> EmptyDict, cached_keys |-> {}, all_loaded |-> FALSE,
     rows |-> [k \in {} |-> "null"], disk |-> [k \in {} |-> "null"],
     in_txn |-> FALSE, closed |-> FALSE]

\* a step's outcome: the handle, the thread's frame, the file's write lock
Out(s, f, lock) == [s |-> s, f |-> f, lock |-> lock]

\* as "BEGIN IMMEDIATE", but the write lock is left for the first write
BeginDeferred(s, h, lock) ==
    [r |-> SqlBegin(s), lock |-> lock]

\* "BEGIN IMMEDIATE" on connection h: the write lock is taken at once, and the
\* statement fails when another connection holds it
BeginImmediate(s, h, lock) ==
    IF lock \notin {0, h} THEN [r |-> Raise(s, "BusyError"), lock |-> lock]
    ELSE LET r == SqlBegin(s)
         IN  [r |-> r, lock |-> IF r.exc = NoExc THEN h ELSE lock]

\* the write lock after a writing statement of connection h: kept to the end
\* of the transaction, released at once in autocommit
LockAfterWrite(r, h, lock) ==
    IF r.exc = NoExc /\ r.s.in_txn THEN h ELSE lock

\* the write lock after COMMIT or ROLLBACK of connection h
LockAfterEnd(s, h, lock) ==
    IF ~s.in_txn /\ lock = h THEN 0 ELSE lock

\* what another connection sees once connection h has moved to s: the
\* committed table, unless it is inside its own transaction
Sync(other, s) ==
    [other EXCEPT !.disk = s.disk,
                  !.rows = IF other.in_txn THEN other.rows ELSE s.disk]

\* __setitem__: the cache is written, then the row
StepSet(s, f, h, lock) ==
    IF f.pc = "cache"
    THEN Out([s EXCEPT !.data = DictSet(@, f.key, f.val),
                       !.cached_keys = @ \cup {f.key}],
             [f EXCEPT !.pc = "db"], lock)
    ELSE LET r == WriteToDb(s, f.key, f.val, lock \in {0, h})
         IN  Out(r.s, Returned(f, r.exc), LockAfterWrite(r, h, lock))

\* get(key): _ensure_cached reads the row, then fills the cache
StepGet(s, f, h, lock) ==
    IF f.pc = "read"
    THEN IF f.key \in s.cached_keys THEN Out(s, Returned(f, NoExc), lock)
         ELSE LET r == ReadFromDb(s, f.key)
              IN  IF r.exc # NoExc THEN Out(s, Returned(f, r.exc), lock)
                  ELSE Out(s, [f EXCEPT !.pc = "fill", !.val = r.ret], lock)
    ELSE LET s1 == [s EXCEPT !.cached_keys = @ \cup {f.key}]
             s2 == IF f.val # PyNone
                   THEN [s1 EXCEPT !.data = DictSet(@, f.key, f.val)]
                   ELSE s1
         IN  Out(s2, Returned([f EXCEPT !.val = PyNone], NoExc), lock)

\* one pass of the loop of batch_update, batch_delete or execute_many; the
\* frame keeps the elements still to come
LoopBody(s, f) ==
    IF f.op = "batch_update" THEN BatchUpdateFrom(s, <<Head(f.items)>>, 1)
    ELSE IF f.op = "batch_delete" THEN BatchDeleteFrom(s, <<Head(f.items)>>, 1)
    ELSE ExecuteManyFrom(s, <<Head(f.items)>>, 1)

\* batch_update, batch_delete, execute_many: BEGIN IMMEDIATE outside the try,
\* one statement per element, COMMIT; ROLLBACK and re-raise in the handler
StepBatch(s, f, h, lock) ==
    IF f.pc = "begin"
    THEN LET b == BeginImmediate(s, h, lock)
         IN  IF b.r.exc # NoExc THEN Out(s, Returned(f, b.r.exc), lock)
             ELSE Out(b.r.s, [f EXCEPT !.pc = "loop"], b.lock)
    ELSE IF f.items = <<>>
    THEN LET c == SqlCommit(s)
         IN  Out(c.s, Returned(f, c.exc), LockAfterEnd(c.s, h, lock))
    ELSE LET l == LoopBody(s, f)
             rb == SqlRollback(l.s)
         IN  IF l.exc = NoExc THEN Out(l.s, [f EXCEPT !.items = Tail(@)], lock)
             ELSE Out(rb.s, Returned(f, IF rb.exc # NoExc THEN rb.exc ELSE l.exc),
                      LockAfterEnd(rb.s, h, lock))

\* begin_transaction(), and transaction().__enter__ which calls it
StepBegin(s, f, h, lock) ==
    LET b == BeginImmediate(s, h, lock)
    IN  Out(b.r.s, Returned(f, b.r.exc), b.lock)

\* commit(), rollback()
StepEnd(s, f, h, lock) ==
    LET r == IF f.op = "commit" THEN Commit(s) ELSE Rollback(s)
    IN  Out(r.s, Returned(f, r.exc), LockAfterEnd(r.s, h, lock))

(* ------------------------------ actions ------------------------------- *)

\* mapping.items(): pairs with distinct keys
KeysIn(items) == {items[i][1] : i \in 1..Len(items)}
Elements(keys) == {keys[i] : i \in 1..Len(keys)}

Pairs == Keys \X PyValues
RECURSIVE SeqsUpTo(_, _)
SeqsUpTo(S, n) ==
    IF n = 0 THEN {<<>>}
    ELSE LET shorter == SeqsUpTo(S, n - 1)
         IN  shorter \cup {Append(q, x) : q \in shorter, x \in S}

DistinctKeys(items) ==
    \A i, j \in 1..Len(items) : items[i][1] = items[j][1] => i = j

Mappings == {m \in SeqsUpTo(Pairs, MaxBatch) : DistinctKeys(m)}
KeyLists == SeqsUpTo(Keys \cup {BadKey}, MaxBatch)

Call(op, key, arg, r) ==
    /\ data' = r.s.data
    /\ cached_keys' = r.s.cached_keys
    /\ all_loaded' = r.s.all_loaded
    /\ rows' = r.s.rows
    /\ disk' = r.s.disk
    /\ in_txn' = r.s.in_txn
    /\ closed' = r.s.closed
    /\ last' = [op |-> op, key |-> key, arg |-> arg, exc |-> r.exc]
    /\ UNCHANGED <<threads, peer, wlock, aux, executed, warned, asyncVars>>

\* the file has no auxiliary table
NoTable ==
    [exists |-> FALSE, columns |-> <<>>, unique |-> {}, rows |-> <<>>,
     rowid |-> 0]

\* the number of read-only connections of the async facade
read_pool_size == 1

\* a read-only connection no read holds, and a caller that awaits nothing:
\* the exception, value and rows of the operation it awaited last, and per
\* key the value of the write it awaited last
Unused == [caller |-> 0, sql |-> <<>>, parameters |-> <<>>]
Resting ==
    [waiting |-> FALSE, exc |-> NoExc, ret |-> PyNone, fetched |-> <<>>,
     wrote |-> EmptyDict]

Init ==
    /\ data = EmptyDict
    /\ cached_keys = {}
    /\ all_loaded = FALSE
    /\ rows = [k \in {} |-> "null"]
    /\ disk = [k \in {} |-> "null"]
    /\ in_txn = FALSE
    /\ closed = FALSE
    /\ ctx = FALSE
    /\ last = [op |-> "init", key |-> "", arg |-> PyNone, exc |-> NoExc]
    /\ threads = [t \in Threads |-> Idle]
    /\ peer = NewHandle
    /\ wlock = 0
    /\ aux = NoTable
    /\ executed = <<>>
    /\ warned = {}
    /\ queue = <<>>
    /\ pool = [conn \in 1..read_pool_size |-> Unused]
    /\ tasks = [c \in Threads |-> Resting]
    /\ stamp = 0

DoGetItem ==
    \E k \in Keys : Call("getitem", k, PyNone, GetItem(Cur, k)) /\ UNCHANGED ctx

DoSetItem ==
    \E k \in Keys, v \in PyValues, engineOk \in BOOLEAN :
        Call("setitem", k, v, SetItem(Cur, k, v, engineOk)) /\ UNCHANGED ctx

DoDelItem ==
    \E k \in Keys, engineOk \in BOOLEAN :
        Call("delitem", k, PyNone, DelItem(Cur, k, engineOk)) /\ UNCHANGED ctx

DoContains ==
    \E k \in Keys : Call("contains", k, PyNone, Contains(Cur, k)) /\ UNCHANGED ctx

DoGet ==
    \E k \in Keys : Call("get", k, PyNone, Get(Cur, k, PyNone)) /\ UNCHANGED ctx

DoPop ==
    \E k \in Keys, hasDefault \in BOOLEAN, engineOk \in BOOLEAN :
        /\ Call("pop", k, PyNone,
                Pop(Cur, k, hasDefault, PyNone, engineOk))
        /\ UNCHANGED ctx

DoUpdate ==
    \E items \in Mappings :
        Call("update", "", PyNone, Update(Cur, items)) /\ UNCHANGED ctx

\* update(mapping, **kwargs): the keyword arguments follow the mapping's
\* items and may name a key of the mapping again
DoUpdateKwargs ==
    \E mapping \in Mappings, kwargs \in Mappings :
        /\ Len(kwargs) > 0 /\ Len(mapping) + Len(kwargs) <= MaxBatch
        /\ Call("update", "", PyNone, Update(Cur, mapping \o kwargs))
        /\ UNCHANGED ctx

DoClear ==
    \E engineOk \in BOOLEAN :
        Call("clear", "", PyNone, Clear(Cur, engineOk)) /\ UNCHANGED ctx

DoSetDefault ==
    \E k \in Keys, d \in JsonValues, engineOk \in BOOLEAN :
        Call("setdefault", k, d, SetDefault(Cur, k, d, engineOk)) /\ UNCHANGED ctx

DoLen ==
    Call("len", "", PyNone, Length(Cur)) /\ UNCHANGED ctx

DoKeys ==
    Call("keys", "", PyNone, KeysOf(Cur)) /\ UNCHANGED ctx

DoValues ==
    Call("values", "", PyNone, Values(Cur)) /\ UNCHANGED ctx

DoItems ==
    Call("items", "", PyNone, Items(Cur)) /\ UNCHANGED ctx

DoToDict ==
    Call("to_dict", "", PyNone, ToDict(Cur)) /\ UNCHANGED ctx

DoLoadAll ==
    Call("load_all", "", PyNone, LoadAll(Cur)) /\ UNCHANGED ctx

DoRefreshKey ==
    \E k \in Keys : Call("refresh", k, PyNone, RefreshKey(Cur, k)) /\ UNCHANGED ctx

DoRefreshAll ==
    Call("refresh", "", PyNone, RefreshAll(Cur)) /\ UNCHANGED ctx

DoIsCached ==
    \E k \in Keys : Call("is_cached", k, PyNone, IsCached(Cur, k)) /\ UNCHANGED ctx

DoBatchUpdate ==
    \E items \in Mappings :
        Call("batch_update", "", PyNone, BatchUpdate(Cur, items)) /\ UNCHANGED ctx

DoBatchDelete ==
    \E keys \in KeyLists :
        Call("batch_delete", "", PyNone, BatchDelete(Cur, keys)) /\ UNCHANGED ctx

DoBeginTransaction ==
    Call("begin_transaction", "", PyNone, BeginTransaction(Cur)) /\ UNCHANGED ctx

\* inside a transaction() block the block's own exit ends the transaction
DoCommit ==
    /\ ~ctx
    /\ Call("commit", "", PyNone, Commit(Cur))
    /\ UNCHANGED ctx

DoRollback ==
    /\ ~ctx
    /\ Call("rollback", "", PyNone, Rollback(Cur))
    /\ UNCHANGED ctx

\* with db.transaction(): the block is entered only if __enter__ returned
DoTxnEnter ==
    LET r == TxnEnter(Cur)
    IN  /\ Call("txn_enter", "", PyNone, r)
        /\ ctx' = (ctx \/ r.exc = NoExc)

\* the block ends, normally or by an exception raised in it; last.arg records
\* whether the block leaves uncommitted changes of the table
DoTxnExit ==
    \E raised \in BOOLEAN :
        /\ ctx
        /\ Call("txn_exit", IF raised THEN "raised" ELSE "normal",
                PyBool(rows # disk), TxnExit(Cur, raised))
        /\ ctx' = FALSE

DoClose ==
    /\ ~ctx
    /\ Call("close", "", PyNone, Close(Cur))
    /\ UNCHANGED ctx

\* a new handle on the same file and table, after the first was closed
DoOpen ==
    \E bulk_load \in BOOLEAN :
        /\ closed
        /\ Call("open", "", PyNone, Open(Cur, bulk_load))
        /\ UNCHANGED ctx

Next ==
    \/ DoGetItem
    \/ DoSetItem
    \/ DoDelItem
    \/ DoContains
    \/ DoGet
    \/ DoPop
    \/ DoUpdate
    \/ DoClear
    \/ DoSetDefault
    \/ DoLen
    \/ DoKeys
    \/ DoValues
    \/ DoItems
    \/ DoToDict
    \/ DoLoadAll
    \/ DoRefreshKey
    \/ DoRefreshAll
    \/ DoIsCached
    \/ DoBatchUpdate
    \/ DoBatchDelete
    \/ DoBeginTransaction
    \/ DoCommit
    \/ DoRollback
    \/ DoTxnEnter
    \/ DoTxnExit
    \/ DoClose
    \/ DoOpen

Spec == Init /\ [][Next]_vars

\* only calls that return without an exception, transactions and close left out
NextSuccess ==
    \/ DoSetItem /\ last'.exc = NoExc
    \/ DoDelItem /\ last'.exc = NoExc
    \/ DoPop /\ last'.exc = NoExc
    \/ DoUpdate /\ last'.exc = NoExc
    \/ DoSetDefault /\ last'.exc = NoExc
    \/ DoRefreshKey /\ last'.exc = NoExc
    \/ DoRefreshAll /\ last'.exc = NoExc
    \/ DoLoadAll /\ last'.exc = NoExc
    \/ DoBatchUpdate /\ last'.exc = NoExc
    \/ DoBatchDelete /\ last'.exc = NoExc
    \/ DoClear /\ last'.exc = NoExc
    \/ DoValues /\ last'.exc = NoExc
    \/ DoItems /\ last'.exc = NoExc
    \/ DoToDict /\ last'.exc = NoExc

SpecSuccess == Init /\ [][NextSuccess]_vars

(* ------------------------- direct SQL actions ------------------------- *)

JsonTexts == {Serialize(v) : v \in JsonValues}
Statements ==
    {Upsert(k, x) : k \in Keys, x \in JsonTexts}
        \cup {DeleteRow(k) : k \in Keys} \cup {BadSql}

\* parameter tuples for the upsert: (key, text), or (key,) which cannot be bound
ParameterTuples == (Keys \X JsonTexts) \cup {<<k>> : k \in Keys}
ParameterLists == SeqsUpTo(ParameterTuples, MaxBatch)

DoExecute ==
    \E sql \in Statements, engineOk \in BOOLEAN :
        /\ Call("execute", IF sql = BadSql THEN "" ELSE sql[2], PyNone,
                Execute(Cur, sql, engineOk))
        /\ UNCHANGED ctx

DoExecuteMany ==
    \E parameters_list \in ParameterLists :
        /\ Call("execute_many", "", PyNone, ExecuteMany(Cur, parameters_list))
        /\ UNCHANGED ctx

DoFetchOne ==
    \E sql \in Statements, engineOk \in BOOLEAN :
        /\ Call("fetch_one", IF sql = BadSql THEN "" ELSE sql[2], PyNone,
                FetchOne(Cur, sql, engineOk))
        /\ UNCHANGED ctx

DoFetchAll ==
    \E sql \in Statements, engineOk \in BOOLEAN :
        /\ Call("fetch_all", IF sql = BadSql THEN "" ELSE sql[2], PyNone,
                FetchAll(Cur, sql, engineOk))
        /\ UNCHANGED ctx

\* the dict interface next to direct SQL on the same connection
NextExecute ==
    \/ DoExecute
    \/ DoExecuteMany
    \/ DoSetItem
    \/ DoDelItem
    \/ DoGetItem
    \/ DoGet
    \/ DoContains
    \/ DoRefreshKey
    \/ DoRefreshAll
    \/ DoLoadAll
    \/ DoToDict
    \/ DoClear
    \/ DoLen
    \/ DoKeys

SpecExecute == Init /\ [][NextExecute]_vars

(* --------------------------- unified facade --------------------------- *)

\* A target is the text handed to NanaDB: a path, or a URL as urlparse reads
\* it (scheme, netloc, path). A path is the sequence of its characters and
\* percent escapes.
Url(text, scheme, netloc, path) ==
    [text |-> text, url |-> TRUE, scheme |-> scheme, netloc |-> netloc,
     path |-> path]
Path(text, path) ==
    [text |-> text, url |-> FALSE, scheme |-> "", netloc |-> "", path |-> path]

Targets ==
    {Path("", <<>>),
     Path("my.db", <<"m", "y", ".", "d", "b">>),
     Url("sqlite:///my.db", "sqlite", "", <<"/", "m", "y", ".", "d", "b">>),
     Url("SQLITE:///C:/my%20.db", "SQLITE", "",
         <<"/", "C", ":", "/", "m", "y", "%20", ".", "d", "b">>),
     Url("sqlite://", "sqlite", "", <<>>),
     Url("file:///my.db", "file", "", <<"/", "m", "y", ".", "d", "b">>),
     Url("postgresql://h/db", "postgresql", "h", <<"/", "d", "b">>),
     Url("postgres://h/db", "postgres", "h", <<"/", "d", "b">>),
     Url("mysql://h/db", "mysql", "h", <<"/", "d", "b">>)}

\* str.lower() on a scheme
Lower(scheme) == IF scheme = "SQLITE" THEN "sqlite" ELSE scheme

\* urllib.parse.unquote on a path
Unquote(path) == [i \in DOMAIN path |-> IF path[i] = "%20" THEN " " ELSE path[i]]

\* path.lstrip("/")
RECURSIVE LStrip(_)
LStrip(path) ==
    IF path # <<>> /\ Head(path) = "/" THEN LStrip(Tail(path)) ELSE path

Memory == <<":", "m", "e", "m", "o", "r", "y", ":">>

\* _detect_backend(target): the backend and the location for it; None as the
\* location is the empty sequence with known = FALSE
Detected(backend, known, location) ==
    [backend |-> backend, known |-> known, location |-> location]

DetectBackend(target) ==
    IF target.text = "" THEN Detected("unknown", FALSE, <<>>)
    ELSE IF target.url
    THEN IF Lower(target.scheme) \in {"sqlite", "file"}
         THEN LET path == Unquote(target.path)
                  local == IF Len(path) > 3 /\ path[1] = "/" /\ path[3] = ":"
                           THEN LStrip(path) ELSE path
              IN  Detected("sqlite", TRUE, IF local = <<>> THEN Memory ELSE local)
         ELSE IF Lower(target.scheme) \in {"postgresql", "postgres"}
         THEN Detected("postgresql", TRUE, <<target.text>>)
         ELSE Detected("unknown", TRUE, <<target.text>>)
    ELSE Detected("sqlite", TRUE, target.path)

\* the parameters of NanaSQLite.__init__ and the keyword arguments
\* NanaDB.__init__ calls it with
InitParameters == {"db_path", "table", "bulk_load", "optimize", "cache_size_mb"}
NanaDBKeywords ==
    {"table", "bulk_load", "optimize", "cache_size_mb", "strict_sql_validation",
     "allowed_sql_functions", "forbidden_sql_functions", "max_clause_length",
     "cache_strategy", "cache_size", "cache_ttl", "cache_persistence_ttl",
     "encryption_key", "encryption_mode"}

\* NanaSQLite(location, **keywords) on the file a closed handle left: a
\* keyword the constructor does not have is a TypeError of the call, raised
\* before the constructor's body runs
NanaSQLite(s, location, keywords) ==
    IF ~(keywords \subseteq InitParameters) THEN Raise(s, "TypeError")
    ELSE Open(s, FALSE)

\* NanaDB(target)
NanaDB(s, target) ==
    LET d == DetectBackend(target)
    IN  IF d.backend = "sqlite" THEN NanaSQLite(s, d.location, NanaDBKeywords)
        ELSE IF d.backend = "postgresql" THEN Raise(s, "NotImplementedError")
        ELSE Raise(s, "ValueError")

\* a facade is constructed where no handle is open
DoNanaDB ==
    \E target \in Targets :
        /\ closed
        /\ Call("NanaDB", target.text, PyNone, NanaDB(Cur, target))
        /\ UNCHANGED ctx

\* the facade's constructor next to the dict calls it forwards
NextUnified ==
    \/ DoNanaDB \/ DoClose
    \/ DoSetItem \/ DoGetItem \/ DoDelItem \/ DoContains

SpecUnified == Init /\ [][NextUnified]_vars

\* the calls that begin a transaction, next to single writes and to the calls
\* that end a transaction
NextNested ==
    \/ DoBeginTransaction \/ DoTxnEnter \/ DoTxnExit
    \/ DoCommit \/ DoRollback
    \/ DoBatchUpdate \/ DoBatchDelete \/ DoExecuteMany
    \/ DoSetItem \/ DoDelItem \/ DoGetItem

SpecNested == Init /\ [][NextNested]_vars

\* the calls that read, write and forget cache entries, next to direct SQL
NextCache ==
    \/ DoGetItem \/ DoGet \/ DoContains
    \/ DoDelItem \/ DoPop
    \/ DoSetItem \/ DoUpdate \/ DoUpdateKwargs \/ DoSetDefault
    \/ DoBatchUpdate \/ DoBatchDelete
    \/ DoRefreshKey \/ DoRefreshAll \/ DoClear \/ DoLoadAll
    \/ DoToDict \/ DoItems \/ DoValues
    \/ DoExecute \/ DoExecuteMany \/ DoFetchOne \/ DoFetchAll

SpecCache == Init /\ [][NextCache]_vars

(* --------------------------- thread actions --------------------------- *)

\* handle 1 is the handle of the state variables, handle 2 is peer
Handle(h) == IF h = 1 THEN Cur ELSE peer

Assign(s) ==
    /\ data' = s.data
    /\ cached_keys' = s.cached_keys
    /\ all_loaded' = s.all_loaded
    /\ rows' = s.rows
    /\ disk' = s.disk
    /\ in_txn' = s.in_txn
    /\ closed' = s.closed

\* thread t has made a step on handle h
Advance(t, h, r) ==
    /\ threads' = [threads EXCEPT ![t] = r.f]
    /\ wlock' = r.lock
    /\ IF h = 1 THEN Assign(r.s) /\ peer' = Sync(peer, r.s)
       ELSE peer' = r.s /\ Assign(Sync(Cur, r.s))
    /\ UNCHANGED <<ctx, last, aux, executed, warned, asyncVars>>

\* thread t is not inside a call
Free(t) == threads[t].pc \in {"", "returned"}
Inside(t, ops) == ~Free(t) /\ threads[t].op \in ops

\* the calls below take their keys from the set K

CallSet(t, h, K) ==
    \E k \in K, v \in JsonValues :
        /\ Free(t)
        /\ Advance(t, h, StepSet(Handle(h), Frame("set", "cache", k, v, <<>>),
                                 h, wlock))

RunSet(t, h) ==
    /\ Inside(t, {"set"})
    /\ Advance(t, h, StepSet(Handle(h), threads[t], h, wlock))

CallGet(t, h, K) ==
    \E k \in K :
        /\ Free(t)
        /\ Advance(t, h, StepGet(Handle(h), Frame("get", "read", k, PyNone, <<>>),
                                 h, wlock))

RunGet(t, h) ==
    /\ Inside(t, {"get"})
    /\ Advance(t, h, StepGet(Handle(h), threads[t], h, wlock))

CallBatchUpdate(t, h, K) ==
    \E items \in {m \in Mappings : KeysIn(m) \subseteq K} :
        /\ Free(t)
        /\ Advance(t, h, StepBatch(Handle(h),
                                   Frame("batch_update", "begin", "", PyNone, items),
                                   h, wlock))

CallBatchDelete(t, h, K) ==
    \E keys \in {l \in KeyLists : Elements(l) \subseteq K \cup {BadKey}} :
        /\ Free(t)
        /\ Advance(t, h, StepBatch(Handle(h),
                                   Frame("batch_delete", "begin", "", PyNone, keys),
                                   h, wlock))

CallExecuteMany(t, h, K) ==
    \E parameters_list \in {l \in ParameterLists : KeysIn(l) \subseteq K} :
        /\ Free(t)
        /\ Advance(t, h, StepBatch(Handle(h),
                                   Frame("execute_many", "begin", "", PyNone,
                                         parameters_list),
                                   h, wlock))

RunBatch(t, h) ==
    /\ Inside(t, {"batch_update", "batch_delete", "execute_many"})
    /\ Advance(t, h, StepBatch(Handle(h), threads[t], h, wlock))

CallBeginTransaction(t, h) ==
    /\ Free(t)
    /\ Advance(t, h, StepBegin(Handle(h),
                               Frame("begin_transaction", "", "", PyNone, <<>>),
                               h, wlock))

CallTxnEnter(t, h) ==
    /\ Free(t)
    /\ Advance(t, h, StepBegin(Handle(h),
                               Frame("txn_enter", "", "", PyNone, <<>>),
                               h, wlock))

CallCommit(t, h) ==
    /\ Free(t)
    /\ Advance(t, h, StepEnd(Handle(h), Frame("commit", "", "", PyNone, <<>>),
                             h, wlock))

CallRollback(t, h) ==
    /\ Free(t)
    /\ Advance(t, h, StepEnd(Handle(h), Frame("rollback", "", "", PyNone, <<>>),
                             h, wlock))

\* no thread is inside a call
Quiet == \A t \in Threads : Free(t)

\* refresh() while no thread is inside a call
RefreshWhenQuiet == Quiet /\ DoRefreshAll

\* two threads on one handle: thread 1 calls set, thread 2 calls get
NextThreads ==
    \/ CallSet(1, 1, Keys)
    \/ RunSet(1, 1)
    \/ CallGet(2, 1, Keys)
    \/ RunGet(2, 1)
    \/ RefreshWhenQuiet

SpecThreads == Init /\ [][NextThreads]_vars

\* two threads on one handle: thread 1 calls set, thread 2 the calls that open
\* a transaction
NextThreadsBatch ==
    \/ CallSet(1, 1, Keys)
    \/ RunSet(1, 1)
    \/ CallBatchUpdate(2, 1, Keys)
    \/ CallBatchDelete(2, 1, Keys)
    \/ CallExecuteMany(2, 1, Keys)
    \/ RunBatch(2, 1)
    \/ CallBeginTransaction(2, 1)
    \/ CallCommit(2, 1)
    \/ CallRollback(2, 1)

SpecThreadsBatch == Init /\ [][NextThreadsBatch]_vars

\* the key the two handles compete for
HandleKeys == {"a"}

\* two handles on one file, each used by its own thread
NextHandles ==
    \E t \in Threads :
        \/ CallSet(t, t, HandleKeys)
        \/ RunSet(t, t)
        \/ CallBatchUpdate(t, t, HandleKeys)
        \/ CallBatchDelete(t, t, HandleKeys)
        \/ CallExecuteMany(t, t, HandleKeys)
        \/ RunBatch(t, t)
        \/ CallBeginTransaction(t, t)
        \/ CallTxnEnter(t, t)
        \/ CallCommit(t, t)
        \/ CallRollback(t, t)

SpecHandles == Init /\ [][NextHandles]_vars

(* ------------------------------- tables ------------------------------- *)

\* as Table, but the table argument is ignored: every handle on "data"
TableIgnored(h) == "data"

\* self._table, the table every statement of the handle names: handle 1 is
\* NanaSQLite(db_path, table="main"), handle 2 is on table "sub" of that file
Table(h) == IF h = 1 THEN "main" ELSE "sub"

Other(h) == 3 - h

\* what the other connection sees once a statement of handle h has left s: a
\* statement changes the rows of the table it names and of no other table
SeenBy(other, h, s) ==
    IF Table(Other(h)) = Table(h) THEN Sync(other, s) ELSE other

\* a whole call on handle h
CallOn(h, op, key, arg, r) ==
    /\ IF h = 1 THEN Assign(r.s) /\ peer' = SeenBy(peer, h, r.s)
       ELSE peer' = r.s /\ Assign(SeenBy(Cur, h, r.s))
    /\ last' = [op |-> op, key |-> key, arg |-> arg, exc |-> r.exc]
    /\ UNCHANGED <<ctx, threads, wlock, aux, executed, warned, asyncVars>>

TableSetItem(h) ==
    \E k \in Keys, v \in JsonValues :
        /\ ~Handle(h).closed
        /\ CallOn(h, "setitem", k, v, SetItem(Handle(h), k, v, TRUE))

TableGetItem(h) ==
    \E k \in Keys :
        /\ ~Handle(h).closed
        /\ CallOn(h, "getitem", k, PyNone, GetItem(Handle(h), k))

TableDelItem(h) ==
    \E k \in Keys :
        /\ ~Handle(h).closed
        /\ CallOn(h, "delitem", k, PyNone, DelItem(Handle(h), k, TRUE))

TableToDict(h) ==
    /\ ~Handle(h).closed
    /\ CallOn(h, "to_dict", "", PyNone, ToDict(Handle(h)))

TableClose(h) ==
    /\ ~Handle(h).closed
    /\ CallOn(h, "close", "", PyNone, Close(Handle(h)))

\* a new handle on the same file and table, after the first was closed
TableOpen(h) ==
    \E bulk_load \in BOOLEAN :
        /\ Handle(h).closed
        /\ CallOn(h, "open", "", PyNone, Open(Handle(h), bulk_load))

\* the main handle and a handle on another table of the file, one call at a
\* time on a handle that is open, no transaction open (so no statement finds
\* the file locked)
NextTables ==
    \E h \in Threads :
        \/ TableSetItem(h)
        \/ TableGetItem(h)
        \/ TableDelItem(h)
        \/ TableToDict(h)
        \/ TableClose(h)
        \/ TableOpen(h)

SpecTables == Init /\ [][NextTables]_vars

(* ----------------------------- sub-tables ----------------------------- *)

\* The parent is handle 1. Handle 2 is child = parent.table(Table(2)): it has
\* its own cache, uses the parent's connection and reads the parent's closed
\* flag; its own closed field says that it was detached by its close().

\* the closed-connection error of a child, naming the child's table
ClosedErrorOf(name) ==
    "NanaSQLiteClosedError: Parent database connection is closed (table: '"
        \o name \o "')"

\* as SubCall, but the child consults its own flag only
SubCallOwnFlag(parent, child, name, r) ==
    IF child.closed THEN Raise(child, "NanaSQLiteClosedError")
    ELSE IF parent.closed THEN Raise(r.s, "ConnectionClosedError")
    ELSE r

\* an operation of the child whose body gives r: the flags are consulted
\* before anything else
SubCall(parent, child, name, r) ==
    IF parent.closed THEN Raise(child, ClosedErrorOf(name))
    ELSE IF child.closed THEN Raise(child, "NanaSQLiteClosedError")
    ELSE r

\* parent.table(name) where the file has the rows of table name as the handle
\* child left them: a handle with an empty cache
SubTable(parent, child, name) ==
    IF parent.closed THEN Raise(child, "NanaSQLiteClosedError")
    ELSE Ok([NewHandle EXCEPT !.rows = child.disk, !.disk = child.disk], PyNone)

\* child.close(): the child is detached, the connection stays open
SubClose(parent, child) ==
    Ok([child EXCEPT !.closed = TRUE], PyNone)

SubOps == {"sub.setitem", "sub.getitem", "sub.delitem", "sub.contains",
           "sub.len", "sub.keys", "sub.to_dict"}

DoSubSetItem ==
    \E k \in Keys, v \in JsonValues :
        CallOn(2, "sub.setitem", k, v,
               SubCall(Cur, peer, Table(2), SetItem(peer, k, v, TRUE)))

DoSubGetItem ==
    \E k \in Keys :
        CallOn(2, "sub.getitem", k, PyNone,
               SubCall(Cur, peer, Table(2), GetItem(peer, k)))

DoSubDelItem ==
    \E k \in Keys :
        CallOn(2, "sub.delitem", k, PyNone,
               SubCall(Cur, peer, Table(2), DelItem(peer, k, TRUE)))

DoSubContains ==
    \E k \in Keys :
        CallOn(2, "sub.contains", k, PyNone,
               SubCall(Cur, peer, Table(2), Contains(peer, k)))

DoSubLen ==
    CallOn(2, "sub.len", "", PyNone, SubCall(Cur, peer, Table(2), Length(peer)))

DoSubKeys ==
    CallOn(2, "sub.keys", "", PyNone, SubCall(Cur, peer, Table(2), KeysOf(peer)))

DoSubToDict ==
    CallOn(2, "sub.to_dict", "", PyNone,
           SubCall(Cur, peer, Table(2), ToDict(peer)))

DoSubClose ==
    CallOn(2, "sub.close", "", PyNone, SubClose(Cur, peer))

\* parent.table(name) again, once the first child was closed
DoSubTable ==
    /\ peer.closed
    /\ CallOn(2, "table", "", PyNone, SubTable(Cur, peer, Table(2)))

DoParentSetItem ==
    \E k \in HandleKeys, v \in JsonValues :
        CallOn(1, "setitem", k, v, SetItem(Cur, k, v, TRUE))

DoParentGetItem ==
    \E k \in HandleKeys : CallOn(1, "getitem", k, PyNone, GetItem(Cur, k))

DoParentClose ==
    CallOn(1, "close", "", PyNone, Close(Cur))

\* a parent and one child at a time, one call at a time, no transaction
NextSubTable ==
    \/ DoParentSetItem \/ DoParentGetItem \/ DoParentClose
    \/ DoSubSetItem \/ DoSubGetItem \/ DoSubDelItem \/ DoSubContains
    \/ DoSubLen \/ DoSubKeys \/ DoSubToDict
    \/ DoSubClose \/ DoSubTable

SpecSubTable == Init /\ [][NextSubTable]_vars

(* ------------------------------ SQL text ------------------------------ *)

\* A statement is the sequence of its tokens, as the f-strings of the helpers
\* put them together; a fragment supplied by the caller (an identifier, a
\* column expression, a WHERE clause) is the sequence of its own tokens.

\* the auxiliary table, the default table and their columns; "group" is a
\* keyword of SQL
AuxTable == "t"
DefaultTable == "data"
DefaultColumns == <<"key", "value">>
ColumnNames == {"name", "group"}
Keywords == {"group"}

\* the strings used here that match ^[a-zA-Z_][a-zA-Z0-9_]*$
IdentifierPattern ==
    {AuxTable, DefaultTable, "key", "value"} \cup ColumnNames

\* "..." around an identifier (one that matches the pattern has no quote to
\* double)
Quote(identifier) == "\"" \o identifier \o "\""

\* _sanitize_identifier: the identifier in double quotes, or ValueError
SanitizeIdentifier(identifier) ==
    IF identifier = "" THEN [exc |-> "ValueError", ret |-> ""]
    ELSE IF identifier \notin IdentifierPattern
    THEN [exc |-> "ValueError", ret |-> ""]
    ELSE [exc |-> NoExc, ret |-> Quote(identifier)]

Range(seq) == {seq[i] : i \in DOMAIN seq}

\* the first place of tok in seq, 0 when it is not there
IndexOf(seq, tok) ==
    IF tok \notin Range(seq) THEN 0
    ELSE CHOOSE i \in DOMAIN seq :
             seq[i] = tok /\ \A j \in 1..(i - 1) : seq[j] # tok

From(seq, i) == SubSeq(seq, i, Len(seq))

\* ", ".join(parts) and the inverse reading
RECURSIVE Join(_, _)
Join(parts, sep) ==
    IF parts = <<>> THEN <<>>
    ELSE IF Len(parts) = 1 THEN parts[1]
    ELSE parts[1] \o <<sep>> \o Join(Tail(parts), sep)

RECURSIVE SplitOn(_, _)
SplitOn(seq, sep) ==
    LET n == IndexOf(seq, sep)
    IN  IF n = 0 THEN <<seq>>
        ELSE <<SubSeq(seq, 1, n - 1)>> \o SplitOn(From(seq, n + 1), sep)

(* ------------------------------- engine ------------------------------- *)

StringLiteral == "<string>"
Unterminated == "<unterminated string>"
NoName == "<syntax error>"
Null == "NULL"

\* the engine's tokenizer: '...' is one string value, a -- comment runs to the
\* end of the line (here: of the text)
RECURSIVE Lexed(_)
Lexed(tokens) ==
    IF tokens = <<>> THEN <<>>
    ELSE IF Head(tokens) = "--" THEN <<>>
    ELSE IF Head(tokens) = "'"
    THEN LET n == IndexOf(Tail(tokens), "'")
         IN  IF n = 0 THEN <<Unterminated>>
             ELSE <<StringLiteral>> \o Lexed(From(Tail(tokens), n + 1))
    ELSE <<Head(tokens)>> \o Lexed(Tail(tokens))

\* the name an identifier token stands for: a quoted identifier is the name
\* between the quotes, a bare keyword is a syntax error
NameOf(token) ==
    IF \E id \in IdentifierPattern : token = Quote(id)
    THEN CHOOSE id \in IdentifierPattern : token = Quote(id)
    ELSE IF token \in Keywords THEN NoName
    ELSE token

\* the functions the engine defines
EngineFunctions == {"COUNT", "HEX"}

IsCall(e) == Len(e) = 4 /\ e[2] = "(" /\ e[4] = ")"
IsCount(e) == IsCall(e) /\ e[1] = "COUNT" /\ e[3] = "*"

\* whether the engine compiles expression e over the columns cols
Compiles(e, cols) ==
    \/ e \in {<<"1">>, <<StringLiteral>>, <<"?">>, <<"*">>}
    \/ Len(e) = 1 /\ NameOf(e[1]) \in Range(cols)
    \/ IsCount(e)
    \/ /\ IsCall(e) /\ e[1] \in EngineFunctions \ {"COUNT"}
       /\ NameOf(e[3]) \in Range(cols)
    \/ e = <<"1", "=", "1">>
    \/ Len(e) = 3 /\ NameOf(e[1]) \in Range(cols) /\ e[2] = "=" /\ e[3] = "?"

\* the value of e in a row
Hex(v) == "HEX(" \o v \o ")"

Eval(e, row) ==
    IF e = <<"1">> THEN "1"
    ELSE IF e = <<StringLiteral>> THEN StringLiteral
    ELSE IF Len(e) = 1 THEN row[NameOf(e[1])]
    ELSE Hex(row[NameOf(e[3])])

\* whether a row satisfies the condition, given the bound parameters
Satisfies(cond, row, parameters) ==
    \/ cond \in {<<>>, <<"1", "=", "1">>}
    \/ Len(cond) = 3 /\ cond[3] = "?" /\ parameters # <<>>
          /\ row[NameOf(cond[1])] = parameters[Len(parameters)]

\* the keys of the default table in the order the engine scans them
KeyOrder ==
    CHOOSE q \in [1..Cardinality(Keys) -> Keys] : Range(q) = Keys

\* a table as the engine sees it through the connection of handle s
TableView(s, a, name) ==
    IF name = DefaultTable
    THEN LET ks == SelectSeq(KeyOrder, LAMBDA k : k \in DOMAIN s.rows)
         IN  [exists |-> TRUE, columns |-> DefaultColumns, unique |-> {"key"},
              rows |-> [i \in DOMAIN ks |->
                           [key |-> ks[i], value |-> s.rows[ks[i]]]],
              rowid |-> a.rowid]
    ELSE IF name = AuxTable THEN a
    ELSE NoTable

\* an engine step's outcome: the handle, the auxiliary table, the error, the
\* rows of the cursor, whether execute() returned with a row waiting (the
\* statements after that one run when the cursor is read) and the auxiliary
\* table as it was then
Done(s, a, cursor) ==
    [s |-> s, aux |-> a, exc |-> NoExc, cursor |-> cursor,
     lazy |-> cursor # <<>>, early |-> a]
Fails(s, a, exc) ==
    [s |-> s, aux |-> a, exc |-> exc, cursor |-> <<>>,
     lazy |-> FALSE, early |-> a]

\* The table a statement has written. INSERT and UPDATE below write the
\* auxiliary table only (the default table is written by the statements of
\* the dict interface and of Execute), DELETE writes either table. A row of
\* the auxiliary table carries its rowid, and the table record the rowid of
\* the connection's last insert.
Written(s, a, name, view) ==
    IF name = AuxTable THEN Done(s, view, <<>>)
    ELSE IF name = DefaultTable
    THEN Done(Store(s, [k \in {view.rows[i].key : i \in DOMAIN view.rows} |->
                           s.rows[k]]), a, <<>>)
    ELSE Fails(s, a, "SQLError")

RECURSIVE MaxRowid(_)
MaxRowid(tableRows) ==
    IF tableRows = <<>> THEN 0
    ELSE LET m == MaxRowid(Tail(tableRows))
         IN  IF Head(tableRows).rowid > m THEN Head(tableRows).rowid ELSE m

\* the text of a number in a statement, and the number of a text
NumberText(n) == IF n = 0 THEN "0" ELSE Digits[n]
IsNumber(token) == token = "0" \/ token \in Range(Digits)
NumberOf(token) ==
    IF token = "0" THEN 0 ELSE CHOOSE n \in DOMAIN Digits : Digits[n] = token

\* a result column without its label: expr AS label
Unaliased(e) ==
    IF Len(e) >= 3 /\ e[Len(e) - 1] \in {"AS", "as"}
    THEN SubSeq(e, 1, Len(e) - 2) ELSE e

\* the end of a SELECT: nothing, LIMIT n, or LIMIT n OFFSET k
IsPaging(p) ==
    \/ p = <<>>
    \/ Len(p) = 2 /\ p[1] = "LIMIT" /\ IsNumber(p[2])
    \/ Len(p) = 4 /\ p[1] = "LIMIT" /\ IsNumber(p[2])
          /\ p[3] = "OFFSET" /\ IsNumber(p[4])

\* the rows LIMIT n OFFSET k leaves of a result
Paged(result, p) ==
    IF p = <<>> THEN result
    ELSE LET k == IF Len(p) = 4 THEN NumberOf(p[4]) ELSE 0
             n == NumberOf(p[2])
             to == IF k + n < Len(result) THEN k + n ELSE Len(result)
         IN  SubSeq(result, k + 1, to)

\* where the end of a SELECT begins, what stands before it, and the end
PagingAt(after) ==
    IF "LIMIT" \in Range(after) THEN IndexOf(after, "LIMIT")
    ELSE IndexOf(after, "OFFSET")
BeforePaging(after) ==
    IF PagingAt(after) = 0 THEN after
    ELSE SubSeq(after, 1, PagingAt(after) - 1)
PagingOf(after) ==
    IF PagingAt(after) = 0 THEN <<>> ELSE From(after, PagingAt(after))

\* SELECT exprs [FROM table [WHERE cond] [LIMIT n [OFFSET k]]]
RunSelect(s, a, q, parameters) ==
    LET body == Tail(q)
        f == IndexOf(body, "FROM")
        listed == SplitOn(IF f = 0 THEN body ELSE SubSeq(body, 1, f - 1), ",")
        exprs == [i \in DOMAIN listed |-> Unaliased(listed[i])]
        name == IF f = 0 \/ f = Len(body) THEN NoName ELSE NameOf(body[f + 1])
        view == IF f = 0
                THEN [exists |-> TRUE, columns |-> <<>>, unique |-> {},
                      rows |-> <<EmptyDict>>,
                      rowid |-> a.rowid]
                ELSE TableView(s, a, name)
        rest == BeforePaging(IF f = 0 THEN <<>> ELSE From(body, f + 2))
        paging == PagingOf(IF f = 0 THEN <<>> ELSE From(body, f + 2))
        cond == IF rest = <<>> THEN <<>> ELSE Tail(rest)
        shown == IF exprs = << <<"*">> >>
                 THEN [i \in DOMAIN view.columns |-> <<view.columns[i]>>]
                 ELSE exprs
        hits == SelectSeq(view.rows,
                          LAMBDA row : Satisfies(cond, row, parameters))
    IN  IF \/ body = <<>>
           \/ (f > 0 /\ f = Len(body))
           \/ ~view.exists
           \/ rest # <<>> /\ Head(rest) # "WHERE"
           \/ rest # <<>> /\ ~Compiles(cond, view.columns)
           \/ \E i \in DOMAIN exprs : ~Compiles(exprs[i], view.columns)
           \/ ~IsPaging(paging)
        THEN Fails(s, a, "SQLError")
        ELSE IF \E i \in DOMAIN shown : IsCount(shown[i])
        THEN Done(s, a, Paged(<< [i \in DOMAIN shown |-> Len(hits)] >>, paging))
        ELSE Done(s, a, Paged([n \in DOMAIN hits |->
                                  [i \in DOMAIN shown |-> Eval(shown[i], hits[n])]],
                              paging))

\* the column types that carry a uniqueness constraint
UniqueTypes == {"TEXT UNIQUE", "TEXT PRIMARY KEY"}

\* CREATE TABLE IF NOT EXISTS table ( name type , ... )
RunCreateTable(s, a, q) ==
    LET defs == SplitOn(SubSeq(q, 4, Len(q) - 1), ",")
        name == NameOf(q[2])
    IN  IF \/ Len(q) < 6 \/ q[3] # "(" \/ q[Len(q)] # ")"
           \/ name = NoName
           \/ \E i \in DOMAIN defs :
                  Len(defs[i]) # 2 \/ NameOf(defs[i][1]) = NoName
        THEN Fails(s, a, "SQLError")
        ELSE IF TableView(s, a, name).exists THEN Done(s, a, <<>>)
        ELSE IF name # AuxTable THEN Fails(s, a, "SQLError")
        ELSE Done(s, [exists |-> TRUE,
                      columns |-> [i \in DOMAIN defs |-> NameOf(defs[i][1])],
                      unique |-> {NameOf(defs[i][1]) : i \in
                                     {j \in DOMAIN defs :
                                          defs[j][2] \in UniqueTypes}},
                      rows |-> <<>>, rowid |-> a.rowid], <<>>)

\* DROP TABLE IF EXISTS table
RunDropTable(s, a, q) ==
    IF Len(q) # 2 \/ NameOf(q[2]) = NoName THEN Fails(s, a, "SQLError")
    ELSE IF NameOf(q[2]) = AuxTable
    THEN Done(s, [NoTable EXCEPT !.rowid = a.rowid], <<>>)
    ELSE Done(s, a, <<>>)

\* the rowids of the rows of a table that hold the value of the new row in
\* one of the columns named
Clash(view, row, columns) ==
    {view.rows[i].rowid : i \in
        {j \in DOMAIN view.rows :
             \E c \in columns : row[c] # Null /\ view.rows[j][c] = row[c]}}

\* excluded.name: the value the statement tried to insert
Excluded(name) == "excluded." \o name

\* INSERT INTO table ( names ) VALUES ( ?, ... )
RunInsert(s, a, q, parameters) ==
    LET close == IndexOf(q, ")")
        names == SplitOn(SubSeq(q, 4, close - 1), ",")
        view == TableView(s, a, NameOf(q[2]))
        given == {NameOf(names[i][1]) : i \in DOMAIN names}
        rowid == MaxRowid(view.rows) + 1
        row == [c \in Range(view.columns) \cup {"rowid"} |->
                   IF c = "rowid" THEN rowid
                   ELSE IF c \in given
                   THEN parameters[CHOOSE i \in DOMAIN names :
                                       NameOf(names[i][1]) = c]
                   ELSE Null]
    IN  IF \/ Len(q) < 5 \/ q[3] # "(" \/ close < 5
           \/ \E i \in DOMAIN names : Len(names[i]) # 1
           \/ ~view.exists \/ NameOf(q[2]) # AuxTable
           \/ ~(given \subseteq Range(view.columns))
        THEN Fails(s, a, "SQLError")
        ELSE IF Len(parameters) # Len(names) THEN Fails(s, a, "BindingsError")
        ELSE IF Clash(view, row, view.unique) # {}
        THEN Fails(s, a, "ConstraintError")
        ELSE Written(s, a, NameOf(q[2]),
                     [view EXCEPT !.rows = Append(@, row), !.rowid = rowid])

\* the row an INSERT with the column list names builds from its parameters
NewRow(view, names, parameters) ==
    [c \in Range(view.columns) \cup {"rowid"} |->
        IF c = "rowid" THEN MaxRowid(view.rows) + 1
        ELSE IF \E i \in DOMAIN names : NameOf(names[i][1]) = c
        THEN parameters[CHOOSE i \in DOMAIN names : NameOf(names[i][1]) = c]
        ELSE Null]

\* the parts of ON CONFLICT ( names ) DO ...: the columns named, what is to
\* be done, and the columns DO UPDATE SET assigns
ConflictTarget(clause) ==
    IF IndexOf(clause, ")") < 3 THEN {}
    ELSE {NameOf(clause[i]) : i \in
             {j \in 2..(IndexOf(clause, ")") - 1) : clause[j] # ","}}
ConflictAction(clause) ==
    IF IndexOf(clause, ")") = 0 THEN <<>>
    ELSE From(clause, IndexOf(clause, ")") + 1)
Assignments(todo) ==
    IF Len(todo) < 2 THEN <<>> ELSE SplitOn(Tail(todo), ",")

\* whether the engine compiles the conflict clause for a table
ConflictCompiles(view, target, todo) ==
    /\ Cardinality(target) = 1 /\ target \subseteq view.unique
    /\ \/ todo = <<"DO NOTHING">>
       \/ /\ Len(todo) >= 4 /\ todo[1] = "DO UPDATE SET"
          /\ \A i \in DOMAIN Assignments(todo) :
                 LET item == Assignments(todo)[i]
                 IN  /\ Len(item) = 3 /\ item[2] = "="
                     /\ item[3] = Excluded(item[1])
                     /\ NameOf(item[1]) \in Range(view.columns)

\* INSERT OR REPLACE: the rows the new row clashes with go, the new row comes
Replaced(s, a, name, view, row) ==
    Written(s, a, name,
            [view EXCEPT
                !.rows = Append(SelectSeq(@, LAMBDA r : r.rowid \notin
                                                Clash(view, row, view.unique)),
                                row),
                !.rowid = row.rowid])

\* ON CONFLICT: without a clash the row is inserted; on a clash DO NOTHING
\* and DO UPDATE insert no row, and the connection's last insert rowid stays
\* what it was
Resolved(s, a, name, view, row, target, todo) ==
    IF Clash(view, row, view.unique) \ Clash(view, row, target) # {}
    THEN Fails(s, a, "ConstraintError")
    ELSE IF Clash(view, row, target) = {}
    THEN Written(s, a, name,
                 [view EXCEPT !.rows = Append(@, row), !.rowid = row.rowid])
    ELSE IF todo = <<"DO NOTHING">> THEN Done(s, a, <<>>)
    ELSE Written(s, a, name,
                 [view EXCEPT !.rows =
                     [i \in DOMAIN @ |->
                         IF @[i].rowid \in Clash(view, row, target)
                         THEN [c \in DOMAIN @[i] |->
                                  IF \E n \in DOMAIN Assignments(todo) :
                                         NameOf(Assignments(todo)[n][1]) = c
                                  THEN row[c] ELSE @[i][c]]
                         ELSE @[i]]])

\* the statement with its column list and conflict clause taken apart
Upserted(s, a, q, parameters, names, view, clause) ==
    IF \/ \E i \in DOMAIN names : Len(names[i]) # 1
       \/ ~view.exists \/ NameOf(q[2]) # AuxTable
       \/ ~({NameOf(names[i][1]) : i \in DOMAIN names}
               \subseteq Range(view.columns))
       \/ (q[1] = "INSERT OR REPLACE INTO") # (clause = <<>>)
       \/ clause # <<>>
             /\ ~ConflictCompiles(view, ConflictTarget(clause),
                                  ConflictAction(clause))
    THEN Fails(s, a, "SQLError")
    ELSE IF Len(parameters) # Len(names) THEN Fails(s, a, "BindingsError")
    ELSE IF clause = <<>>
    THEN Replaced(s, a, NameOf(q[2]), view, NewRow(view, names, parameters))
    ELSE Resolved(s, a, NameOf(q[2]), view, NewRow(view, names, parameters),
                  ConflictTarget(clause), ConflictAction(clause))

\* INSERT OR REPLACE INTO table ( names ) VALUES ( ?, ... ), and
\* INSERT INTO table ( names ) VALUES ( ?, ... ) ON CONFLICT ( names )
\* DO NOTHING | DO UPDATE SET name = excluded.name , ...
RunUpsert(s, a, q, parameters) ==
    IF Len(q) < 5 \/ q[3] # "(" \/ IndexOf(q, ")") < 5
    THEN Fails(s, a, "SQLError")
    ELSE Upserted(s, a, q, parameters,
                  SplitOn(SubSeq(q, 4, IndexOf(q, ")") - 1), ","),
                  TableView(s, a, NameOf(q[2])),
                  IF IndexOf(q, "ON CONFLICT") = 0 THEN <<>>
                  ELSE From(q, IndexOf(q, "ON CONFLICT") + 1))

\* UPDATE table SET name = ? , ... WHERE cond
RunUpdate(s, a, q, parameters) ==
    LET w == IndexOf(q, "WHERE")
        sets == SplitOn(SubSeq(q, 4, w - 1), ",")
        cond == From(q, w + 1)
        view == TableView(s, a, NameOf(q[2]))
        changed(row) ==
            [c \in DOMAIN row |->
                IF \E i \in DOMAIN sets : NameOf(sets[i][1]) = c
                THEN parameters[CHOOSE i \in DOMAIN sets :
                                    NameOf(sets[i][1]) = c]
                ELSE row[c]]
    IN  IF \/ Len(q) < 8 \/ q[3] # "SET" \/ w < 7
           \/ ~view.exists \/ NameOf(q[2]) # AuxTable
           \/ \E i \in DOMAIN sets :
                  ~(Len(sets[i]) = 3 /\ sets[i][2] = "=" /\ sets[i][3] = "?"
                       /\ NameOf(sets[i][1]) \in Range(view.columns))
           \/ ~Compiles(cond, view.columns)
        THEN Fails(s, a, "SQLError")
        ELSE Written(s, a, NameOf(q[2]),
                     [view EXCEPT !.rows =
                         [i \in DOMAIN @ |->
                             IF Satisfies(cond, @[i], parameters)
                             THEN changed(@[i]) ELSE @[i]]])

\* DELETE FROM table WHERE cond
RunDelete(s, a, q, parameters) ==
    LET view == TableView(s, a, NameOf(q[2]))
        cond == From(q, 4)
    IN  IF \/ Len(q) < 4 \/ q[3] # "WHERE"
           \/ ~view.exists
           \/ ~Compiles(cond, view.columns)
        THEN Fails(s, a, "SQLError")
        ELSE Written(s, a, NameOf(q[2]),
                     [view EXCEPT !.rows =
                         SelectSeq(@, LAMBDA row :
                                          ~Satisfies(cond, row, parameters))])

\* PRAGMA table_info ( table ): one row per column
RunTableInfo(s, a, q) ==
    LET view == IF Len(q) = 4 THEN TableView(s, a, NameOf(q[3])) ELSE NoTable
    IN  IF Len(q) # 4 \/ q[2] # "(" \/ q[4] # ")" THEN Fails(s, a, "SQLError")
        ELSE Done(s, a, [i \in DOMAIN view.columns |-> <<i, view.columns[i]>>])

\* one statement, already tokenized
Run(s, a, q, parameters) ==
    IF q = <<>> THEN Done(s, a, <<>>)
    ELSE IF Unterminated \in Range(q) THEN Fails(s, a, "SQLError")
    ELSE IF q[1] = "SELECT" THEN RunSelect(s, a, q, parameters)
    ELSE IF q[1] = "CREATE TABLE IF NOT EXISTS" THEN RunCreateTable(s, a, q)
    ELSE IF q[1] = "DROP TABLE IF EXISTS" THEN RunDropTable(s, a, q)
    ELSE IF q[1] = "INSERT OR REPLACE INTO" \/ "ON CONFLICT" \in Range(q)
    THEN RunUpsert(s, a, q, parameters)
    ELSE IF q[1] = "INSERT INTO" THEN RunInsert(s, a, q, parameters)
    ELSE IF q[1] = "UPDATE" THEN RunUpdate(s, a, q, parameters)
    ELSE IF q[1] = "DELETE FROM" THEN RunDelete(s, a, q, parameters)
    ELSE IF q[1] = "PRAGMA table_info" THEN RunTableInfo(s, a, q)
    ELSE Fails(s, a, "SQLError")

\* the statements of a text one after the other, up to the first that fails;
\* the cursor gives the rows of all of them
RECURSIVE RunAll(_, _, _, _)
RunAll(s, a, statements, parameters) ==
    IF statements = <<>> THEN Done(s, a, <<>>)
    ELSE LET r == Run(s, a, Head(statements), parameters)
         IN  IF r.exc # NoExc THEN r
             ELSE LET more == RunAll(r.s, r.aux, Tail(statements), parameters)
                  IN  [more EXCEPT !.cursor = r.cursor \o @,
                                   !.lazy = r.lazy \/ @,
                                   !.early = IF r.lazy THEN r.aux ELSE @]

\* execute(sql, parameters) on a statement text
ExecuteSql(s, a, sql, parameters) ==
    IF s.closed THEN Fails(s, a, "ConnectionClosedError")
    ELSE RunAll(s, a, SplitOn(Lexed(sql), ";"), parameters)

(* ------------------------------ SQL helpers --------------------------- *)

\* None as the table name, the column list or the clause of a helper
NoTableName == ""
NoColumns == <<>>
NoWhere == <<>>

\* what a helper leaves: the handle, the auxiliary table, the exception or
\* the value, the statements it passed to execute()
Helped(r, ret, statements) ==
    [s |-> r.s, aux |-> r.aux, exc |-> r.exc,
     ret |-> IF r.exc = NoExc THEN ret ELSE PyNone,
     executed |-> statements]

\* create_table(table_name, columns): columns is the dict, a sequence of
\* <<name, type>>; if_not_exists and primary_key are left at their defaults
CreateTable(s, a, table_name, columns) ==
    LET column_defs == [i \in DOMAIN columns |->
                           <<columns[i][1], columns[i][2]>>]
        sql == <<"CREATE TABLE IF NOT EXISTS", table_name, "(">>
                   \o Join(column_defs, ",") \o <<")">>
    IN  Helped(ExecuteSql(s, a, sql, <<>>), PyNone, <<sql>>)

\* drop_table(table_name), if_exists left at its default
DropTable(s, a, table_name) ==
    LET sql == <<"DROP TABLE IF EXISTS", table_name>>
    IN  Helped(ExecuteSql(s, a, sql, <<>>), PyNone, <<sql>>)

\* sql_insert(table_name, data): data is the dict, a sequence of
\* <<column, value>>; returns the connection's last insert rowid
Inserted(r, sql) == Helped(r, PyInt(r.aux.rowid), <<sql>>)

SqlInsert(s, a, table_name, data_dict) ==
    LET columns == [i \in DOMAIN data_dict |-> <<data_dict[i][1]>>]
        values == [i \in DOMAIN data_dict |-> data_dict[i][2]]
        placeholders == [i \in DOMAIN data_dict |-> <<"?">>]
        sql == <<"INSERT INTO", table_name, "(">> \o Join(columns, ",")
                   \o <<")", "VALUES", "(">> \o Join(placeholders, ",")
                   \o <<")">>
    IN  Inserted(ExecuteSql(s, a, sql, values), sql)

\* sql_update(table_name, data, where, parameters): where is the clause's
\* tokens; returns the connection's changes()
SqlUpdate(s, a, table_name, data_dict, where, parameters) ==
    LET set_items == [i \in DOMAIN data_dict |-> <<data_dict[i][1], "=", "?">>]
        values == [i \in DOMAIN data_dict |-> data_dict[i][2]]
        sql == <<"UPDATE", table_name, "SET">> \o Join(set_items, ",")
                   \o <<"WHERE">> \o where
    IN  Helped(ExecuteSql(s, a, sql, values \o parameters),
               PyInt(Cardinality({i \in DOMAIN a.rows :
                         Satisfies(where, a.rows[i], values \o parameters)})),
               <<sql>>)

\* sql_delete(table_name, where, parameters); returns the connection's
\* changes()
Deleted(r, a, sql) == Helped(r, PyInt(Len(a.rows) - Len(r.aux.rows)), <<sql>>)

SqlDelete(s, a, table_name, where, parameters) ==
    LET sql == <<"DELETE FROM", table_name, "WHERE">> \o where
    IN  Deleted(ExecuteSql(s, a, sql, parameters), a, sql)

\* dict(zip(col_names, row)): a later pair with the same name wins
Zip(col_names, row) ==
    LET n == IF Len(col_names) < Len(row) THEN Len(col_names) ELSE Len(row)
    IN  [c \in {col_names[i] : i \in 1..n} |->
            row[CHOOSE i \in 1..n :
                    col_names[i] = c /\ \A j \in (i + 1)..n : col_names[j] # c]]

\* query(), its last part: the rows of cursor r as dicts, named by columns
\* or, when columns is None, by the table_info cursor p
QueryResults(r, p, columns, statements) ==
    LET col_names == IF columns = NoColumns
                     THEN [i \in DOMAIN p.cursor |-> <<p.cursor[i][2]>>]
                     ELSE columns
        results == [i \in DOMAIN r.cursor |-> Zip(col_names, r.cursor[i])]
    IN  IF p.exc # NoExc THEN Helped(p, PyNone, statements)
        ELSE Helped(r, results, statements)

\* query(), its middle part: with columns None the table_info statement is
\* executed after execute(sql) returned and before its cursor is read
QueryColumns(r, columns, sql, pragma) ==
    IF columns # NoColumns \/ (r.exc # NoExc /\ ~r.lazy)
    THEN QueryResults(r, Done(r.s, r.aux, <<>>), columns, <<sql>>)
    ELSE QueryResults(r, ExecuteSql(r.s, r.early, pragma, <<>>), columns,
                      <<sql, pragma>>)

\* None as the limit or the offset of a helper
NoLimit == -1

\* query(table_name, columns, where, parameters, order_by, limit): columns is
\* None or the list of column expressions, where is None or the clause's
\* tokens; order_by is left at None. "if limit:" takes 0 as it takes None.
Query(s, a, table_name, columns, where, parameters, limit) ==
    LET table == IF table_name = NoTableName THEN DefaultTable ELSE table_name
        columns_sql == IF columns = NoColumns THEN <<"*">>
                       ELSE Join(columns, ",")
        sql == <<"SELECT">> \o columns_sql \o <<"FROM", table>>
                   \o (IF where = NoWhere THEN <<>> ELSE <<"WHERE">> \o where)
                   \o (IF limit \in {NoLimit, 0} THEN <<>>
                       ELSE <<"LIMIT", NumberText(limit)>>)
    IN  QueryColumns(ExecuteSql(s, a, sql, parameters), columns, sql,
                     <<"PRAGMA table_info", "(", table, ")">>)

\* re.split(r'\s+as\s+', col, flags=re.IGNORECASE)[-1]: what follows the
\* last "as" of the column's text, or the whole text when there is none
RECURSIVE AfterLastAs(_)
AfterLastAs(col) ==
    IF \E i \in DOMAIN col : col[i] \in {"AS", "as"}
    THEN LET i == CHOOSE j \in DOMAIN col : col[j] \in {"AS", "as"}
         IN  AfterLastAs(From(col, i + 1))
    ELSE col

\* query_with_pagination(table_name, columns, where, parameters, order_by,
\* limit, offset, group_by): order_by and group_by are left at None.
\* "if limit:" and "if offset:" take 0 as they take None.
QueryWithPagination(s, a, table_name, columns, where, parameters, limit, offset) ==
    LET table == IF table_name = NoTableName THEN DefaultTable ELSE table_name
        columns_sql == IF columns = NoColumns THEN <<"*">>
                       ELSE Join(columns, ",")
        sql == <<"SELECT">> \o columns_sql \o <<"FROM", table>>
                   \o (IF where = NoWhere THEN <<>> ELSE <<"WHERE">> \o where)
                   \o (IF limit \in {NoLimit, 0} THEN <<>>
                       ELSE <<"LIMIT", NumberText(limit)>>)
                   \o (IF offset \in {NoLimit, 0} THEN <<>>
                       ELSE <<"OFFSET", NumberText(offset)>>)
        col_names == [i \in DOMAIN columns |-> AfterLastAs(columns[i])]
    IN  QueryColumns(ExecuteSql(s, a, sql, parameters), col_names, sql,
                     <<"PRAGMA table_info", "(", table, ")">>)

\* "table (a, b) VALUES (?, ?)" for the dict data
ValuesOfDict(table_name, data_dict) ==
    <<table_name, "(">>
        \o Join([i \in DOMAIN data_dict |-> <<data_dict[i][1]>>], ",")
        \o <<")", "VALUES", "(">>
        \o Join([i \in DOMAIN data_dict |-> <<"?">>], ",") \o <<")">>

\* the columns of data that are not conflict columns, as "col = excluded.col"
UpdateItemsOf(data_dict, conflict_columns) ==
    LET others == SelectSeq(data_dict,
                            LAMBDA d : d[1] \notin Range(conflict_columns))
    IN  [i \in DOMAIN others |-> <<others[i][1], "=", Excluded(others[i][1])>>]

\* the statement upsert() builds
UpsertSql(table_name, data_dict, conflict_columns, update_items) ==
    IF conflict_columns = NoColumns
    THEN <<"INSERT OR REPLACE INTO">> \o ValuesOfDict(table_name, data_dict)
    ELSE <<"INSERT INTO">> \o ValuesOfDict(table_name, data_dict)
             \o <<"ON CONFLICT", "(">>
             \o Join([i \in DOMAIN conflict_columns |->
                          <<conflict_columns[i]>>], ",")
             \o <<")">>
             \o (IF update_items = <<>> THEN <<"DO NOTHING">>
                 ELSE <<"DO UPDATE SET">> \o Join(update_items, ","))

\* upsert(table_name, data, conflict_columns): conflict_columns is None or
\* the list of columns; returns the connection's last insert rowid
UpsertExecuted(s, a, sql, values) == Inserted(ExecuteSql(s, a, sql, values), sql)

UpsertInto(s, a, table_name, data_dict, conflict_columns) ==
    UpsertExecuted(s, a,
                   UpsertSql(table_name, data_dict, conflict_columns,
                             UpdateItemsOf(data_dict, conflict_columns)),
                   [i \in DOMAIN data_dict |-> data_dict[i][2]])

\* count(table_name, where, parameters)
Counted(r, sql) ==
    Helped(r, IF r.exc = NoExc THEN PyInt(r.cursor[1][1]) ELSE PyNone, <<sql>>)

Count(s, a, table_name, where, parameters) ==
    LET table == IF table_name = NoTableName THEN DefaultTable ELSE table_name
        sql == <<"SELECT", "COUNT", "(", "*", ")", "FROM", table>>
                   \o (IF where = NoWhere THEN <<>> ELSE <<"WHERE">> \o where)
    IN  Counted(ExecuteSql(s, a, sql, parameters), sql)

(* -------------------------- SQL helper actions ------------------------ *)

\* the default of max_clause_length
max_clause_length == 1000

\* dicts for create_table, sql_insert and sql_update
ColumnDicts ==
    {<< <<"name", "TEXT">> >>, << <<"group", "TEXT">>, <<"name", "TEXT">> >>}
InsertDicts ==
    {<< <<"name", "Alice">> >>, << <<"group", "Admin">>, <<"name", "Alice">> >>}
UpdateDicts == {<< <<"name", "Bob">> >>}

\* column lists: names, calls, a string literal and a comment holding a call
CallOf(f, argument) == <<f, "(", argument, ")">>
InLiteral(f) == <<"'", f, "(", "'">>
InComment(f) == <<"1", "--", f, "(">>

ColumnLists ==
    {NoColumns, << <<"name">> >>, << <<"group">>, <<"name">> >>,
     << CallOf("COUNT", "*") >>, << CallOf("HEX", "name") >>,
     << CallOf("FORBIDDEN_FUNC", "*") >>,
     << InLiteral("FORBIDDEN_FUNC") >>, << InComment("FORBIDDEN_FUNC") >>}

\* a clause: its tokens, the length of its text, the parameters bound to it
Clause(expr, length, parameters) ==
    [expr |-> expr, length |-> length, parameters |-> parameters]

NoClause == Clause(NoWhere, 0, <<>>)

\* 1=1, the same padded with blanks beyond the length limit, a comparison
\* with a parameter, and a clause that carries a second statement
Clauses ==
    {Clause(<<"1", "=", "1">>, 3, <<>>),
     Clause(<<"1", "=", "1">>, max_clause_length + 1, <<>>),
     Clause(<<"name", "=", "?">>, 8, <<"Alice">>),
     Clause(<<"1", "=", "1", ";", "DROP TABLE IF EXISTS", AuxTable>>, 28, <<>>)}

\* a helper call on the handle of the state variables
Sql(op, arg, r) ==
    /\ Assign(r.s)
    /\ aux' = r.aux
    /\ executed' = r.executed
    /\ warned' = {}
    /\ last' = [op |-> op, key |-> "", arg |-> arg, exc |-> r.exc]
    /\ UNCHANGED <<ctx, threads, peer, wlock, asyncVars>>

DoCreateTable ==
    \E columns \in ColumnDicts :
        Sql("create_table", [table_name |-> AuxTable, columns |-> columns],
            CreateTable(Cur, aux, AuxTable, columns))

DoDropTable ==
    Sql("drop_table", [table_name |-> AuxTable], DropTable(Cur, aux, AuxTable))

DoSqlInsert ==
    \E d \in InsertDicts :
        /\ MaxRowid(aux.rows) < MaxRows
        /\ Sql("sql_insert", [table_name |-> AuxTable, data |-> d],
               SqlInsert(Cur, aux, AuxTable, d))

DoSqlUpdate ==
    \E d \in UpdateDicts, where \in Clauses :
        Sql("sql_update", [table_name |-> AuxTable, data |-> d, where |-> where],
            SqlUpdate(Cur, aux, AuxTable, d, where.expr, where.parameters))

DoSqlDelete ==
    \E where \in Clauses :
        Sql("sql_delete", [table_name |-> AuxTable, where |-> where],
            SqlDelete(Cur, aux, AuxTable, where.expr, where.parameters))

DoQuery ==
    \E table_name \in {NoTableName, AuxTable}, columns \in ColumnLists,
       where \in Clauses \cup {NoClause} :
        Sql("query",
            [table_name |-> table_name, columns |-> columns, where |-> where],
            Query(Cur, aux, table_name, columns, where.expr, where.parameters,
                  NoLimit))

DoCount ==
    \E table_name \in {NoTableName, AuxTable}, where \in Clauses \cup {NoClause} :
        Sql("count", [table_name |-> table_name, where |-> where],
            Count(Cur, aux, table_name, where.expr, where.parameters))

\* a table with a unique column, its rows, and the column lists and limits
\* of the queries on it
UniqueDict == << <<"name", "TEXT UNIQUE">>, <<"value", "TEXT">> >>
RowDicts ==
    {<< <<"name", n>>, <<"value", v>> >> : n \in {"Alice", "Bob"}, v \in {"1", "2"}}
        \cup {<< <<"name", "Alice">> >>}
Labelled(expr, label) == expr \o <<"AS", label>>
LabelLists ==
    {NoColumns, << <<"name">> >>,
     << Labelled(<<"name">>, Quote("value")) >>,
     << Labelled(CallOf("HEX", "name"), "shown"), <<"value">> >>,
     << <<"'", "seen", "as", "said", "'">> >>}
Limits == {NoLimit} \cup 0..MaxRows

DoCreateUnique ==
    Sql("create_table", [table_name |-> AuxTable, columns |-> UniqueDict],
        CreateTable(Cur, aux, AuxTable, UniqueDict))

DoInsertRow ==
    \E d \in RowDicts :
        /\ MaxRowid(aux.rows) < MaxRows
        /\ Sql("sql_insert", [table_name |-> AuxTable, data |-> d],
               SqlInsert(Cur, aux, AuxTable, d))

DoUpsert ==
    \E d \in RowDicts, conflict_columns \in {NoColumns, <<"name">>} :
        /\ MaxRowid(aux.rows) < MaxRows
        /\ Sql("upsert",
               [table_name |-> AuxTable, data |-> d,
                conflict_columns |-> conflict_columns],
               UpsertInto(Cur, aux, AuxTable, d, conflict_columns))

DoQueryLimit ==
    \E columns \in LabelLists, limit \in Limits :
        Sql("query",
            [table_name |-> AuxTable, columns |-> columns, limit |-> limit,
             offset |-> NoLimit],
            Query(Cur, aux, AuxTable, columns, NoWhere, <<>>, limit))

DoQueryWithPagination ==
    \E columns \in LabelLists, limit \in Limits, offset \in Limits :
        Sql("query_with_pagination",
            [table_name |-> AuxTable, columns |-> columns, limit |-> limit,
             offset |-> offset],
            QueryWithPagination(Cur, aux, AuxTable, columns, NoWhere, <<>>,
                                limit, offset))

\* the row helpers and the queries on one table
NextRows ==
    \/ DoCreateUnique \/ DoDropTable
    \/ DoInsertRow \/ DoUpsert \/ DoSqlDelete
    \/ DoQueryLimit \/ DoQueryWithPagination

SpecRows == Init /\ [][NextRows]_vars

\* the SQL helpers on one handle, with writes of the default table between
NextSql ==
    \/ DoCreateTable \/ DoDropTable
    \/ DoSqlInsert \/ DoSqlUpdate \/ DoSqlDelete
    \/ DoQuery \/ DoCount
    \/ DoParentSetItem

SpecSql == Init /\ [][NextSql]_vars

(* ---------------------------- async facade ---------------------------- *)

\* The facade runs every operation of the synchronous core on a worker and
\* lets the caller await it. Operations for the primary connection are
\* dispatched first in, first out; fetch_all takes a read-only connection
\* from the pool, executes on it and gives it back.

\* an operation submitted to the primary connection
Submitted(caller, op, key, val) ==
    [caller |-> caller, op |-> op, key |-> key, val |-> val]

Without(q, i) == SubSeq(q, 1, i - 1) \o SubSeq(q, i + 1, Len(q))

\* the place in the queue of the operation the worker runs next
DispatchLast(q) == Len(q)

Dispatch(q) == 1

\* a statement text that writes
Mutating(sql) ==
    \E q \in Range(SplitOn(Lexed(sql), ";")) :
        q # <<>> /\ q[1] \in {"INSERT INTO", "UPDATE", "DELETE FROM",
                              "CREATE TABLE IF NOT EXISTS",
                              "DROP TABLE IF EXISTS"}

\* the file as a pool connection sees it: the committed table
PoolView(s) == [s EXCEPT !.rows = s.disk, !.in_txn = FALSE, !.closed = FALSE]

PoolExecuteWritable(s, a, sql, parameters) ==
    ExecuteSql(PoolView(s), a, sql, parameters)

\* execute() on a read-only connection: the engine refuses a writing
\* statement with its read-only error
PoolExecute(s, a, sql, parameters) ==
    IF Mutating(sql) THEN Fails(PoolView(s), a, "ReadOnlyError")
    ELSE ExecuteSql(PoolView(s), a, sql, parameters)

\* the statements given to fetch_all
SelectRow == <<"SELECT", "key", ",", "value", "FROM", DefaultTable,
               "WHERE", "key", "=", "?">>
DeleteWhere == <<"DELETE FROM", DefaultTable, "WHERE", "key", "=", "?">>

\* caller c submits an operation to the primary connection and awaits it
Submit(c, op, key, val) ==
    /\ ~tasks[c].waiting
    /\ queue' = Append(queue, Submitted(c, op, key, val))
    /\ tasks' = [tasks EXCEPT ![c].waiting = TRUE]
    /\ UNCHANGED <<data, cached_keys, all_loaded, rows, disk, in_txn, closed,
                   ctx, last, threads, peer, wlock, aux, executed, warned, pool>>

\* aset(key, value): the values written are numbered in submission order
ASet(c) ==
    \E k \in HandleKeys :
        /\ stamp < MaxWrites
        /\ Submit(c, "aset", k, PyInt(stamp + 1))
        /\ stamp' = stamp + 1

\* aget(key)
AGet(c) ==
    \E k \in HandleKeys : Submit(c, "aget", k, PyNone) /\ UNCHANGED stamp

\* fetch_all(sql, parameters): the caller takes a free read-only connection
AFetchAll(c) ==
    \E sql \in {SelectRow, DeleteWhere}, k \in HandleKeys, conn \in DOMAIN pool :
        /\ ~tasks[c].waiting
        /\ pool[conn] = Unused
        /\ pool' = [pool EXCEPT ![conn] =
                        [caller |-> c, sql |-> sql, parameters |-> <<k>>]]
        /\ tasks' = [tasks EXCEPT ![c].waiting = TRUE]
        /\ UNCHANGED <<data, cached_keys, all_loaded, rows, disk, in_txn,
                       closed, ctx, last, threads, peer, wlock, aux, executed,
                       warned, queue, stamp>>

\* the worker runs the next operation of the queue on the primary connection,
\* whole, and the caller resumes with its outcome
RunPrimary ==
    /\ queue # <<>>
    /\ LET i == Dispatch(queue)
           o == queue[i]
           r == IF o.op = "aset" THEN SetItem(Cur, o.key, o.val, TRUE)
                ELSE GetItem(Cur, o.key)
       IN  /\ Assign(r.s)
           /\ queue' = Without(queue, i)
           /\ tasks' = [tasks EXCEPT ![o.caller] =
                   [waiting |-> FALSE, exc |-> r.exc, ret |-> r.ret,
                    fetched |-> <<>>,
                    wrote |-> IF o.op = "aset" /\ r.exc = NoExc
                              THEN DictSet(@.wrote, o.key, o.val)
                              ELSE @.wrote]]
           /\ last' = [op |-> o.op, key |-> o.key, arg |-> o, exc |-> r.exc]
    /\ UNCHANGED <<ctx, threads, peer, wlock, aux, executed, warned, pool,
                   stamp>>

\* a worker executes the read that holds connection conn, the connection is
\* released and the caller resumes with the rows or the engine's error
RunPool(conn) ==
    /\ pool[conn] # Unused
    /\ LET o == pool[conn]
           r == PoolExecute(Cur, aux, o.sql, o.parameters)
       IN  /\ Assign(Sync(Cur, r.s))
           /\ aux' = r.aux
           /\ pool' = [pool EXCEPT ![conn] = Unused]
           /\ tasks' = [tasks EXCEPT ![o.caller] =
                   [@ EXCEPT !.waiting = FALSE, !.exc = r.exc,
                             !.ret = PyNone, !.fetched = r.cursor]]
           /\ last' = [op |-> "fetch_all", key |-> o.parameters[1],
                       arg |-> o, exc |-> r.exc]
    /\ UNCHANGED <<ctx, threads, peer, wlock, executed, warned, queue, stamp>>

NextAsync ==
    \/ \E c \in Threads : ASet(c) \/ AGet(c) \/ AFetchAll(c)
    \/ RunPrimary
    \/ \E conn \in DOMAIN pool : RunPool(conn)

SpecAsync == Init /\ [][NextAsync]_vars

(* ---------------------------- observations ---------------------------- *)

\* what a caller sees of a call: the exception or the value
Outcome(r) == <<r.exc, r.ret>>

\* a new handle on the file as a close() of s leaves it
Reopened(s, bulk_load) == Open(Close(s).s, bulk_load).s

\* what to_dict() shows for key
ToDictAt(s, key) ==
    LET t == ToDict(s)
    IN  IF t.exc # NoExc THEN <<t.exc>>
        ELSE IF key \in DOMAIN t.ret.val THEN <<"has", t.ret.val[key]>>
        ELSE <<"no">>

\* the mapping a caller holds, read in state s
Deref(ref, s) == IF ref.alias THEN s.data ELSE ref.val

(* ------------------------------- claims ------------------------------- *)

C2_CacheCoherent ==
    ~closed =>
        \A k \in DOMAIN rows :
            k \in DOMAIN data => data[k] = Deserialize(rows[k])

\* C3: a set that fails leaves the cache as it was: _data and _cached_keys are
\* unchanged, and get, contains and is_cached answer as before.
C3_FailedSetKeepsCache ==
    [][(last'.op = "setitem" /\ last'.exc # NoExc) =>
          /\ data' = data
          /\ cached_keys' = cached_keys
          /\ \A k \in Keys :
                 /\ Outcome(Get(Nxt, k, PyNone)) = Outcome(Get(Cur, k, PyNone))
                 /\ Outcome(Contains(Nxt, k)) = Outcome(Contains(Cur, k))
                 /\ Outcome(IsCached(Nxt, k)) = Outcome(IsCached(Cur, k))]_vars

\* C4: a batch_update(M) in which an element fails shows no element of M
\* afterwards: the table is as before, and for every key of M the cache entry
\* and the answers of get, contains and to_dict are as before.
C4_BatchUpdateAtomic ==
    [][\A items \in Mappings :
          LET r == BatchUpdate(Cur, items)
          IN  (last'.op = "batch_update" /\ r.exc = "TypeError" /\ Nxt = r.s) =>
                  /\ rows' = rows
                  /\ \A k \in KeysIn(items) :
                         /\ (k \in DOMAIN data') = (k \in DOMAIN data)
                         /\ k \in DOMAIN data => data'[k] = data[k]
                         /\ (k \in cached_keys') = (k \in cached_keys)
                         /\ Outcome(Get(Nxt, k, PyNone)) = Outcome(Get(Cur, k, PyNone))
                         /\ Outcome(Contains(Nxt, k)) = Outcome(Contains(Cur, k))
                         /\ ToDictAt(Nxt, k) = ToDictAt(Cur, k)]_vars

\* the calls that read or write keys and rows
DictOps ==
    {"getitem", "setitem", "delitem", "contains", "get", "pop", "update",
     "clear", "setdefault", "len", "keys", "values", "items", "to_dict",
     "load_all", "batch_update", "batch_delete"}

\* C5: on a closed handle every such call fails with the closed-connection
\* error and changes neither the cache nor the table.
C5_ClosedRejectsAll ==
    [][(closed /\ last'.op \in DictOps /\ last' # last) =>
          /\ last'.exc = "ConnectionClosedError"
          /\ UNCHANGED <<data, cached_keys, all_loaded, rows, disk>>]_vars

\* a key with a row is read, reported present and deletable
Present(s, key, value) ==
    /\ Outcome(GetItem(s, key)) = <<NoExc, value>>
    /\ Outcome(Contains(s, key)) = <<NoExc, PyTrue>>
    /\ DelItem(s, key, TRUE).exc = NoExc

\* C6: a key stored with any JSON value is readable by indexed read, reported
\* present and deletable on the handle that wrote it, after refresh(key),
\* after refresh() and on a re-opened handle; and after a refresh or on a new
\* handle, indexed read and delete raise KeyError exactly for the keys
\* without a row.
C6_KeyErrorIffNoRow ==
    /\ (last.op = "setitem" /\ last.exc = NoExc /\ last.arg \in JsonValues) =>
           LET k == last.key
               v == last.arg
           IN  /\ Present(Cur, k, v)
               /\ Present(RefreshKey(Cur, k).s, k, v)
               /\ Present(RefreshAll(Cur).s, k, v)
               /\ ~in_txn => \A bulk_load \in BOOLEAN :
                                 Present(Reopened(Cur, bulk_load), k, v)
    /\ (last.op \in {"refresh", "open"} /\ last.exc = NoExc /\ ~closed) =>
           \A k \in Keys :
               /\ GetItem(Cur, k).exc = "KeyError" <=> k \notin DOMAIN rows
               /\ DelItem(Cur, k, TRUE).exc = "KeyError" <=> k \notin DOMAIN rows

\* C7: delete(K) and pop(K) of a key that has a row and is reported present
\* with the row's value: on success the row and the cache entry are gone,
\* contains(K) is false and get(K) returns the default; when the DELETE fails,
\* K is still reported present and get(K) still returns its stored value.
C7_DeleteInvalidatesAfterDb ==
    [][\A k \in Keys :
          (/\ last'.op \in {"delitem", "pop"} /\ last'.key = k /\ last' # last
           /\ k \in DOMAIN rows
           /\ Outcome(Contains(Cur, k)) = <<NoExc, PyTrue>>
           /\ Outcome(Get(Cur, k, PyNone)) = <<NoExc, Deserialize(rows[k])>>) =>
              IF last'.exc = NoExc
              THEN /\ k \notin DOMAIN rows'
                   /\ k \notin DOMAIN data'
                   /\ Outcome(Contains(Nxt, k)) = <<NoExc, PyFalse>>
                   /\ Outcome(Get(Nxt, k, PyNone)) = <<NoExc, PyNone>>
              ELSE /\ rows' = rows
                   /\ Contains(Nxt, k).ret = PyTrue
                   /\ Get(Nxt, k, PyNone).ret = Get(Cur, k, PyNone).ret]_vars

\* C8: a batch_delete(keys) in which an element fails is rolled back as a
\* whole: the table is as before, and every listed key that get and to_dict
\* showed with its row's value before the call is still shown so.
C8_BatchDeleteAtomic ==
    [][\A keys \in KeyLists :
          LET r == BatchDelete(Cur, keys)
          IN  (last'.op = "batch_delete" /\ r.exc = "TypeError" /\ Nxt = r.s) =>
                  /\ rows' = rows
                  /\ \A k \in Elements(keys) \cap DOMAIN rows :
                         LET v == Deserialize(rows[k])
                         IN  /\ Outcome(Get(Cur, k, PyNone)) = <<NoExc, v>>
                                    => Outcome(Get(Nxt, k, PyNone)) = <<NoExc, v>>
                             /\ ToDictAt(Cur, k) = <<"has", v>>
                                    => ToDictAt(Nxt, k) = <<"has", v>>]_vars

\* a call that writes through the handle, applied to state s
Writes(s) ==
    {SetItem(s, k, v, TRUE).s : k \in Keys, v \in JsonValues}
        \cup {DelItem(s, k, TRUE).s : k \in Keys}
        \cup {Clear(s, TRUE).s}

\* C9: after successful calls only, to_dict() returns a mapping whose keys
\* are exactly keys() and whose values are the decoded rows; values() and
\* items() agree with it; and a later write does not change the mapping
\* returned.
C9_ToDictIsTable ==
    LET t == ToDict(Cur)
    IN  /\ t.exc = NoExc
        /\ DOMAIN t.ret.val = KeysOf(Cur).ret
        /\ \A k \in DOMAIN t.ret.val : t.ret.val[k] = Deserialize(rows[k])
        /\ Items(Cur).ret.val = t.ret.val
        /\ Values(Cur).ret = ValuesOf(t.ret.val)
        /\ \A w \in Writes(t.s) : Deref(t.ret, w) = Deref(t.ret, t.s)

C11_ThreadsCacheIsRow ==
    Quiet =>
        \A k \in DOMAIN data :
            k \in DOMAIN rows /\ data[k] = Deserialize(rows[k])

\* C12: when a thread's set(K, V) returns successfully, the row is committed:
\* a ROLLBACK that another thread's batch_update, batch_delete, execute_many
\* or transaction issues on the handle afterwards leaves K with V.
C12_SetSurvivesRollback ==
    [][LET f == threads'[1]
       IN  (threads[1].pc = "db" /\ f.op = "set" /\ f.pc = "returned"
            /\ f.exc = NoExc) =>
               /\ f.key \in DOMAIN disk' /\ disk'[f.key] = Serialize(f.val)
               /\ in_txn' =>
                      LET undone == SqlRollback(Nxt).s.rows
                      IN  f.key \in DOMAIN undone
                              /\ undone[f.key] = Serialize(f.val)]_vars

\* the calls whose first statement is BEGIN IMMEDIATE
Openers ==
    {"begin_transaction", "txn_enter", "batch_update", "batch_delete",
     "execute_many"}

\* C13: with two handles on one file, every transaction takes the file's
\* write lock at its BEGIN: at most one handle has an open transaction, the
\* lock is held exactly by the handle inside a transaction between calls'
\* statements, a call that finds the lock taken fails with BusyError while its
\* handle holds neither lock nor transaction (so nobody waits for it), and the
\* holder's own writes, COMMIT and ROLLBACK never find the lock taken.
C13_ImmediateLocking ==
    /\ [](/\ ~(in_txn /\ peer.in_txn)
          /\ in_txn <=> wlock = 1
          /\ peer.in_txn <=> wlock = 2
          /\ \A h \in Threads :
                 Handle(h).in_txn =>
                     /\ \A k \in HandleKeys, v \in JsonValues :
                            StepSet(Handle(h), Frame("set", "db", k, v, <<>>),
                                    h, wlock).f.exc = NoExc
                     /\ \A end \in {"commit", "rollback"} :
                            LET e == StepEnd(Handle(h), Frame(end, "", "", PyNone, <<>>),
                                             h, wlock)
                            IN  e.f.exc = NoExc /\ e.lock = 0)
    /\ [][\A t \in Threads :
              (threads'[t] # threads[t] /\ threads'[t].exc = "BusyError") =>
                  /\ ~Handle(t).in_txn /\ ~Handle(t).in_txn'
                  /\ wlock \notin {0, t} /\ wlock' = wlock]_vars

\* handle 2's BEGIN IMMEDIATE was refused while handle 1 is inside a transaction
C13_Witness ==
    /\ threads[2].op \in Openers /\ threads[2].pc = "returned"
    /\ threads[2].exc = "BusyError"
    /\ in_txn /\ wlock = 1 /\ ~peer.in_txn
    /\ threads[1].op \in Openers

\* the handle as it is, or after one more statement through execute()
AfterExecute(s) ==
    {s} \cup {Execute(s, sql, TRUE).s : sql \in Statements \ {BadSql}}

\* C14: after refresh(K) or refresh() has returned, the next indexed read of K
\* returns the value the row of K has at the time of the read, or raises
\* KeyError if there is no row then, also when the row was changed through
\* execute() after the refresh.
C14_RefreshForcesRead ==
    (last.op = "refresh" /\ last.exc = NoExc) =>
        \A k \in (IF last.key = "" THEN Keys ELSE {last.key}) :
            \A s \in AfterExecute(Cur) :
                Outcome(GetItem(s, k)) =
                    IF k \in DOMAIN s.rows
                    THEN <<NoExc, Deserialize(s.rows[k])>>
                    ELSE <<"KeyError", PyNone>>

\* C15: on an open handle len() returns the number of rows of the table,
\* which is the number of keys keys() returns, whatever the cache holds, and
\* neither call changes the handle.
C15_LenIsRowCount ==
    ~closed =>
        /\ Length(Cur) = Ok(Cur, PyInt(Cardinality(DOMAIN rows)))
        /\ KeysOf(Cur) = Ok(Cur, DOMAIN rows)
        /\ Length(Cur).ret = PyInt(Cardinality(KeysOf(Cur).ret))

\* len() was called with all_loaded set, a key cached as absent that has a
\* row, and a cache of another size than the table
C15_Witness ==
    /\ last.op = "len" /\ last.exc = NoExc
    /\ all_loaded
    /\ \E k \in cached_keys : k \notin DOMAIN data /\ k \in DOMAIN rows
    /\ Cardinality(DOMAIN data) # Cardinality(DOMAIN rows)
    /\ Length(Cur).ret = PyInt(Cardinality(DOMAIN rows))

\* the value a mapping given as a sequence of pairs has for key k
ValueIn(items, k) ==
    items[CHOOSE i \in 1..Len(items) : items[i][1] = k][2]

\* C16: after successful calls only, a successful batch_update(M) on a table
\* S followed by to_dict() returns S overridden by M: the keys are those of S
\* and M, every key of M has M's value, every other key its decoded row.
C16_BatchUpdateThenToDict ==
    [][\A items \in Mappings :
          LET r == BatchUpdate(Cur, items)
              t == ToDict(Nxt)
          IN  (last'.op = "batch_update" /\ r.exc = NoExc /\ Nxt = r.s) =>
                  /\ t.exc = NoExc
                  /\ DOMAIN t.ret.val = (DOMAIN rows) \cup KeysIn(items)
                  /\ \A k \in DOMAIN t.ret.val :
                         t.ret.val[k] = IF k \in KeysIn(items)
                                        THEN ValueIn(items, k)
                                        ELSE Deserialize(rows[k])]_vars

\* one successful call after state s: a set, a load_all or a refresh(key)
OneLater(s) ==
    {SetItem(s, k, v, TRUE).s : k \in Keys, v \in JsonValues}
        \cup {LoadAll(s).s} \cup {RefreshKey(s, k).s : k \in Keys}

\* the states at most n such calls after s
RECURSIVE Later(_, _)
Later(s, n) ==
    IF n = 0 THEN {s}
    ELSE LET before == Later(s, n - 1)
         IN  before \cup UNION {OneLater(x) : x \in before}

\* the table decoded: key -> value
Decoded(table) == [k \in DOMAIN table |-> Deserialize(table[k])]

\* C17: after a successful clear() len() is 0 and keys() is empty, the cache is
\* empty (is_cached(K) and contains(K) are false for every K) and the
\* all-loaded flag is reset; and a to_dict() after later successful calls
\* returns exactly the rows written since the clear.
C17_ClearEmptiesAll ==
    [][(last'.op = "clear" /\ last'.exc = NoExc) =>
          /\ Outcome(Length(Nxt)) = <<NoExc, PyInt(0)>>
          /\ Outcome(KeysOf(Nxt)) = <<NoExc, {}>>
          /\ data' = EmptyDict /\ cached_keys' = {} /\ ~all_loaded'
          /\ \A k \in Keys :
                 /\ Outcome(IsCached(Nxt, k)) = <<NoExc, PyFalse>>
                 /\ Outcome(Contains(Nxt, k)) = <<NoExc, PyFalse>>
          /\ \A s \in Later(Nxt, MaxLater) :
                 LET t == ToDict(s)
                 IN  t.exc = NoExc /\ t.ret.val = Decoded(s.rows)]_vars

\* C18: the first load_all() (the flag not yet set) sets the flag and leaves
\* every key that has a row cached with its decoded value; a second
\* load_all() right after it changes nothing and does not use the connection
\* (it returns normally even on a closed one).
C18_LoadAllIdempotent ==
    [][(last'.op = "load_all" /\ last'.exc = NoExc /\ ~all_loaded) =>
          /\ all_loaded'
          /\ rows' = rows
          /\ \A k \in DOMAIN rows :
                 /\ Outcome(IsCached(Nxt, k)) = <<NoExc, PyTrue>>
                 /\ k \in DOMAIN data' /\ data'[k] = Deserialize(rows[k])
          /\ LoadAll(Nxt) = Ok(Nxt, PyNone)
          /\ LoadAll(Close(Nxt).s) = Ok(Close(Nxt).s, PyNone)]_vars

\* a first load_all() found rows that were not cached, or cached otherwise
C18_Witness ==
    /\ last.op = "load_all" /\ last.exc = NoExc
    /\ all_loaded
    /\ Cardinality(DOMAIN rows) = Cardinality(Keys)
    /\ data = Decoded(rows)
    /\ \E k \in Keys : rows[k] = "null"

\* C19: after successful calls only, a successful setdefault(K, D) returns the
\* stored value and leaves the table as it is when K has a row (a null row
\* included, cached or not); otherwise it returns D and K has D in the table
\* and in the cache.
C19_SetDefaultStandard ==
    [][(last'.op = "setdefault" /\ last'.exc = NoExc) =>
          LET k == last'.key
              d == last'.arg
              r == SetDefault(Cur, k, d, TRUE)
          IN  IF k \in DOMAIN rows
              THEN /\ r.ret = Deserialize(rows[k])
                   /\ rows' = rows
              ELSE /\ r.ret = d
                   /\ rows' = DictSet(rows, k, Serialize(d))
                   /\ k \in DOMAIN data' /\ data'[k] = d]_vars

\* C20: on an open handle, a call on a key K that has no row leaves the table
\* as it is, and get(K, d) returns d, contains(K) returns false, pop(K, d)
\* returns d, and delete(K) and pop(K) raise KeyError.
C20_MissingKeyFrame ==
    [][\A k \in Keys :
          (/\ k \notin DOMAIN rows /\ ~closed
           /\ last'.key = k
           /\ last'.op \in {"get", "contains", "pop", "delitem"}) =>
              /\ rows' = rows /\ disk' = disk
              /\ last'.op = "get" =>
                     /\ last'.exc = NoExc
                     /\ \A d \in JsonValues :
                            Outcome(Get(Cur, k, d)) = <<NoExc, d>>
              /\ last'.op = "contains" =>
                     /\ last'.exc = NoExc
                     /\ Outcome(Contains(Cur, k)) = <<NoExc, PyFalse>>
              /\ last'.op = "pop" =>
                     /\ last'.exc \in {NoExc, "KeyError"}
                     /\ \A d \in JsonValues, engineOk \in BOOLEAN :
                            /\ Outcome(Pop(Cur, k, TRUE, d, engineOk)) = <<NoExc, d>>
                            /\ Pop(Cur, k, FALSE, d, engineOk).exc = "KeyError"
              /\ last'.op = "delitem" => last'.exc = "KeyError"]_vars

\* C21: keys(), and iteration over the handle, return the keys that have a row
\* and leave the cached values, the set of cached keys and the all-loaded
\* flag as they were.
C21_KeysLeavesCache ==
    [][last'.op = "keys" =>
          /\ data' = data /\ cached_keys' = cached_keys
          /\ all_loaded' = all_loaded
          /\ KeysOf(Cur).s = Cur /\ Iter(Cur).s = Cur
          /\ ~closed => /\ Outcome(KeysOf(Cur)) = <<NoExc, DOMAIN rows>>
                        /\ Outcome(Iter(Cur)) = <<NoExc, DOMAIN rows>>]_vars

\* keys() has returned a key whose row is not in the cache
C21_Witness ==
    /\ last.op = "keys" /\ last.exc = NoExc
    /\ ~all_loaded
    /\ \E k \in DOMAIN rows : k \notin cached_keys /\ k \notin DOMAIN data

\* the handle h after the step
HandleNxt(h) == IF h = 1 THEN Nxt ELSE peer'

\* C22: with the main handle and a handle on another table of the same file,
\* a cache holds only values of its own table's rows; a successful write of
\* key K through one handle is read back through that handle, leaves the
\* other handle, its table and what it reads for K as they were, and is what
\* a new handle on the written table shows, while a new handle on the other
\* table shows what it showed before.
C22_TableIsolation ==
    /\ [](\A h \in Threads : \A k \in DOMAIN Handle(h).data :
              /\ k \in DOMAIN Handle(h).disk
              /\ Handle(h).data[k] = Deserialize(Handle(h).disk[k]))
    /\ [][\A h \in Threads, k \in Keys, v \in JsonValues :
            (/\ last' = [op |-> "setitem", key |-> k, arg |-> v, exc |-> NoExc]
             /\ HandleNxt(h) = SetItem(Handle(h), k, v, TRUE).s
             /\ HandleNxt(h) # Handle(h)) =>
                LET o == Other(h)
                IN  /\ Outcome(GetItem(HandleNxt(h), k)) = <<NoExc, v>>
                    /\ HandleNxt(o) = Handle(o)
                    /\ \A b \in BOOLEAN :
                           /\ ToDictAt(Reopened(HandleNxt(h), b), k) = <<"has", v>>
                           /\ ToDictAt(Reopened(HandleNxt(o), b), k)
                                  = ToDictAt(Reopened(Handle(o), b), k)
                           /\ v # PyNone =>
                                  Outcome(GetItem(Reopened(HandleNxt(h), b), k))
                                      = <<NoExc, v>>]_vars

\* both tables hold key "a", with different values, each handle has its own
\* value cached, and the handle on the other table wrote last
C22_Witness ==
    /\ last = [op |-> "setitem", key |-> "a", arg |-> PyNone, exc |-> NoExc]
    /\ ~closed /\ ~peer.closed
    /\ "a" \in DOMAIN data /\ data["a"] = PyInt(1) /\ disk["a"] = "1"
    /\ "a" \in DOMAIN peer.data /\ peer.data["a"] = PyNone
    /\ peer.disk["a"] = "null"

\* C23: once the parent is closed, every operation of the child fails with
\* the closed-connection error that names the child's table, and changes
\* nothing; a close() of the child leaves the parent as it is, open and
\* accepting writes and reads, and a new table(name) handle shows the rows the
\* closed child left.
C23_ClosurePropagates ==
    /\ [][(closed /\ last'.op \in SubOps) =>
              /\ last'.exc = ClosedErrorOf(Table(2))
              /\ peer' = peer /\ Nxt = Cur]_vars
    /\ [][(~closed /\ last'.op = "sub.close") =>
              /\ last'.exc = NoExc /\ peer'.closed
              /\ Nxt = Cur
              /\ \A k \in HandleKeys, v \in JsonValues :
                     LET w == SetItem(Nxt, k, v, TRUE)
                     IN  /\ w.exc = NoExc
                         /\ Outcome(GetItem(w.s, k)) = <<NoExc, v>>
              /\ LET n == SubTable(Nxt, peer', Table(2))
                 IN  /\ n.exc = NoExc
                     /\ \A k \in Keys :
                            LET g == SubCall(Nxt, n.s, Table(2), GetItem(n.s, k))
                                d == SubCall(Nxt, n.s, Table(2), ToDict(n.s))
                            IN  /\ d.exc = NoExc
                                /\ d.ret.val = Decoded(peer.rows)
                                /\ (k \in DOMAIN peer.rows
                                        /\ peer.rows[k] # "null") =>
                                       Outcome(g) = <<NoExc,
                                                     Deserialize(peer.rows[k])>>
                                /\ k \notin DOMAIN peer.rows =>
                                       g.exc = "KeyError"]_vars

\* the parent is closed and a read of a key the child has cached has failed
\* with the error naming the child's table
C23_Witness ==
    /\ closed /\ ~peer.closed
    /\ last.op = "sub.getitem" /\ last.exc = ClosedErrorOf("sub")
    /\ last.key \in DOMAIN peer.data
    /\ last.key \in DOMAIN peer.rows

\* the table, column and index names a helper call was given
ArgNames(op, arg) ==
    CASE op = "create_table" ->
             {arg.table_name} \cup {arg.columns[i][1] : i \in DOMAIN arg.columns}
      [] op \in {"sql_insert", "sql_update"} ->
             {arg.table_name} \cup {arg.data[i][1] : i \in DOMAIN arg.data}
      [] op = "drop_table" -> {arg.table_name}
      [] op = "query" ->
             ({arg.table_name} \ {NoTableName})
                 \cup {c[1] : c \in {e \in Range(arg.columns) :
                                         Len(e) = 1 /\ e[1] \in ColumnNames}}
      [] OTHER -> {}

\* C24: in every create_table, sql_insert, sql_update, query and drop_table
\* call, each table and column name the caller gave stands in the executed
\* statement in the quoter's form and nowhere bare, and a create_table whose
\* columns include the reserved word group succeeds.
C24_IdentifiersQuoted ==
    [][(last'.op \in {"create_table", "sql_insert", "sql_update", "query",
                      "drop_table"}) =>
           /\ executed' # <<>>
           /\ \A id \in ArgNames(last'.op, last'.arg) :
                  /\ SanitizeIdentifier(id).ret \in Range(executed'[1])
                  /\ id \notin Range(executed'[1])
           /\ last'.op = "create_table" => last'.exc = NoExc]_vars

\* the helpers that take a WHERE clause
ClauseOps == {"query", "count", "sql_update", "sql_delete"}

\* C25: a query, count, sql_update or sql_delete call whose WHERE clause is
\* longer than max_clause_length fails with the validation error and passes
\* no statement to execute().
C25_LongClauseRejected ==
    [][(last'.op \in ClauseOps /\ last'.arg.where.length > max_clause_length) =>
           /\ last'.exc = "NanaSQLiteValidationError"
           /\ executed' = <<>>]_vars

\* the default allow set as far as the calls of the model go: COUNT is in
\* it, HEX and the undefined names are not
DefaultAllowed == {"COUNT"}

\* the names called in a clause: the tokens before a "(" once string
\* literals and comments are stripped
CallsIn(expr) ==
    LET l == Lexed(expr)
    IN  {l[i] : i \in {j \in 1..(Len(l) - 1) : l[j + 1] = "("}}

\* the names called in the clauses of a helper call
CalledBy(op, arg) ==
    CallsIn(arg.where.expr)
        \cup (IF op = "query" THEN UNION {CallsIn(c) : c \in Range(arg.columns)}
              ELSE {})

\* a statement terminator outside literals and comments
Dangerous(expr) == ";" \in Range(Lexed(expr))

\* the allow set in force for a call, and the decision for the name X
EffectiveAllowed(allowed, handle_allowed, override_allowed) ==
    IF override_allowed THEN allowed
    ELSE allowed \cup handle_allowed \cup DefaultAllowed

Accepted(X, forbidden, allowed, handle_allowed, override_allowed) ==
    /\ X \notin forbidden
    /\ X \in EffectiveAllowed(allowed, handle_allowed, override_allowed)

\* the step's call was stopped or flagged by validation
Flagged == last'.exc = "NanaSQLiteValidationError" \/ warned' # {}

\* C26: in a query call without query-level and handle-level lists, a called
\* name X is rejected by validation exactly when it is outside the effective
\* allow set, which then is the default allow set.
C26_FunctionControl ==
    [][(last'.op = "query" /\ ~Dangerous(last'.arg.where.expr)
            /\ last'.arg.where.length <= max_clause_length) =>
           \A X \in CalledBy(last'.op, last'.arg) :
               Flagged <=> ~Accepted(X, {}, {}, {}, FALSE)]_vars

\* C27: a helper call with a clause that calls a name outside the allow set
\* or holds a dangerous pattern either ends with the validation error and
\* executes no statement (strict), or emits a warning and executes its
\* statement (non-strict).
C27_AbortOrWarn ==
    [][(/\ last'.op \in ClauseOps
        /\ \/ \E X \in CalledBy(last'.op, last'.arg) :
                  ~Accepted(X, {}, {}, {}, FALSE)
           \/ Dangerous(last'.arg.where.expr)) =>
           \/ last'.exc = "NanaSQLiteValidationError" /\ executed' = <<>>
           \/ warned' # {} /\ executed' # <<>>
                  /\ last'.exc # "NanaSQLiteValidationError"]_vars

\* C28: for a name X outside the allow set and a query whose WHERE clause
\* gives validation nothing to object to, the column X(*) triggers
\* validation, and the columns 'X(' and 1 -- X( do not.
C28_LiteralsAndComments ==
    [][\A X \in {"FORBIDDEN_FUNC"} :
          (/\ last'.op = "query"
           /\ ~Dangerous(last'.arg.where.expr)
           /\ CallsIn(last'.arg.where.expr) = {}
           /\ last'.arg.where.length <= max_clause_length) =>
              /\ last'.arg.columns = <<CallOf(X, "*")>> => Flagged
              /\ last'.arg.columns \in {<<InLiteral(X)>>, <<InComment(X)>>} =>
                     ~Flagged]_vars

\* the step is the execution of a fetch_all on a read-only connection
PoolStep(conn) == pool[conn] # Unused /\ pool'[conn] = Unused

\* the step is the worker running an operation of the queue
PrimaryStep == Len(queue') < Len(queue)

\* C29: a writing statement given to fetch_all and executed on a read-only
\* connection of the pool ends with the engine's read-only error and leaves
\* the table, the handle and the queue of the primary connection as they
\* were; the primary connection accepts a write after it, and every write
\* the worker runs on the primary connection succeeds and stores its row.
C29_PoolRejectsMutation ==
    /\ [][\A conn \in DOMAIN pool :
             (PoolStep(conn) /\ Mutating(pool[conn].sql)) =>
                 /\ last'.exc = "ReadOnlyError"
                 /\ tasks'[pool[conn].caller].exc = "ReadOnlyError"
                 /\ Nxt = Cur /\ aux' = aux /\ queue' = queue
                 /\ \A k \in HandleKeys, v \in JsonValues :
                        LET w == SetItem(Nxt, k, v, TRUE)
                        IN  /\ w.exc = NoExc
                            /\ w.s.disk[k] = Serialize(v)]_vars
    /\ [][(PrimaryStep /\ last'.op = "aset") =>
              /\ last'.exc = NoExc
              /\ disk'[last'.key] = Serialize(last'.arg.val)]_vars

\* a DELETE of a key that has a row was given to fetch_all and refused, the
\* row is still there, and a write waits for the primary connection
C29_Witness ==
    /\ last.op = "fetch_all" /\ last.exc = "ReadOnlyError"
    /\ last.arg.sql = DeleteWhere
    /\ last.key \in DOMAIN disk
    /\ \E i \in DOMAIN queue : queue[i].op = "aset"

\* the number of a value written through aset
No(value) == value[2]

\* writes take effect in submission order: when the worker runs a write, its
\* row holds its value and every write still queued was submitted after it;
\* once no write is queued the row holds the value submitted last
InSubmissionOrder ==
    /\ [][(PrimaryStep /\ last'.op = "aset") =>
              /\ last'.exc = NoExc
              /\ disk'[last'.key] = Serialize(last'.arg.val)
              /\ \A i \in DOMAIN queue' :
                     queue'[i].op = "aset" =>
                         No(queue'[i].val) > No(last'.arg.val)]_vars
    /\ []((stamp > 0 /\ \A i \in DOMAIN queue : queue[i].op # "aset") =>
              \A k \in HandleKeys : disk[k] = Serialize(PyInt(stamp)))

\* C30 as stated: writes take effect in submission order, and a read of key
\* K that a caller awaits after a write of K it awaited, through aget or
\* through fetch_all on a pool connection, returns the value of that write.
C30_ReadReturnsOwnWrite ==
    /\ InSubmissionOrder
    /\ [][(PrimaryStep /\ last'.op = "aget"
               /\ last'.key \in DOMAIN tasks[last'.arg.caller].wrote) =>
              /\ tasks'[last'.arg.caller].exc = NoExc
              /\ tasks'[last'.arg.caller].ret
                     = tasks[last'.arg.caller].wrote[last'.key]]_vars
    /\ [][\A conn \in DOMAIN pool :
             LET o == pool[conn]
             IN  (PoolStep(conn) /\ o.sql = SelectRow
                     /\ o.parameters[1] \in DOMAIN tasks[o.caller].wrote) =>
                     /\ tasks'[o.caller].exc = NoExc
                     /\ tasks'[o.caller].fetched =
                            << <<o.parameters[1],
                                 Serialize(tasks[o.caller].wrote[o.parameters[1]])
                               >> >>]_vars

\* C30: writes take effect in submission order, and a read of key K that a
\* caller awaits after a write of K it awaited, through aget or through
\* fetch_all on a pool connection, returns the value of the write of K that
\* took effect last: the caller's write, or a write submitted after it.
C30_ReadSeesOwnWrite ==
    /\ InSubmissionOrder
    /\ [][(PrimaryStep /\ last'.op = "aget"
               /\ last'.key \in DOMAIN tasks[last'.arg.caller].wrote) =>
              LET c == last'.arg.caller
              IN  /\ tasks'[c].exc = NoExc
                  /\ tasks'[c].ret = Deserialize(disk[last'.key])
                  /\ No(tasks'[c].ret) >= No(tasks[c].wrote[last'.key])]_vars
    /\ [][\A conn \in DOMAIN pool :
             LET o == pool[conn]
                 k == o.parameters[1]
             IN  (PoolStep(conn) /\ o.sql = SelectRow
                     /\ k \in DOMAIN tasks[o.caller].wrote) =>
                     /\ tasks'[o.caller].exc = NoExc
                     /\ tasks'[o.caller].fetched = << <<k, disk[k]>> >>
                     /\ No(Deserialize(disk[k]))
                            >= No(tasks[o.caller].wrote[k])]_vars

\* caller 1 awaited its write, the second one submitted, and then read the
\* key through the pool: the rows it got hold the value it wrote
C30_Witness ==
    /\ last.op = "fetch_all" /\ last.exc = NoExc
    /\ last.arg.caller = 1 /\ last.arg.sql = SelectRow
    /\ "a" \in DOMAIN tasks[1].wrote /\ tasks[1].wrote["a"] = PyInt(2)
    /\ tasks[1].fetched = << <<"a", "2">> >>
    /\ ~tasks[1].waiting

\* C36: in every state between calls, every key the cache holds a value for
\* is in the cached-key set, and is_cached answers True for it.
C36_CachedValueIsMarked ==
    /\ DOMAIN data \subseteq cached_keys
    /\ \A k \in DOMAIN data : ~closed => Outcome(IsCached(Cur, k)) = <<NoExc, PyTrue>>

\* key a is cached with a value, key b is cached as absent: the converse
\* does not hold
C36_Witness ==
    /\ "a" \in DOMAIN data /\ "a" \in cached_keys
    /\ "b" \in cached_keys /\ "b" \notin DOMAIN data
    /\ last.op = "contains" /\ last.key = "b"

\* key k is cached as absent in handle s
CachedAbsent(s, k) == k \in s.cached_keys /\ k \notin DOMAIN s.data

\* handle s with the table changed behind its back: the row of k is text
Behind(s, k, text) ==
    [s EXCEPT !.rows = DictSet(@, k, text), !.disk = DictSet(@, k, text)]

\* a lookup that found no row, a delete or a pop leaves the key cached as
\* absent
RecordsAbsent ==
    \A k \in Keys :
          (/\ last' # last /\ last'.key = k
           /\ \/ /\ last'.op \in {"get", "contains", "getitem"}
                 /\ last'.exc \in {NoExc, "KeyError"}
                 /\ k \notin cached_keys /\ k \notin DOMAIN rows
              \/ /\ last'.op \in {"delitem", "pop"}
                 /\ last'.exc \in {NoExc, "KeyError"}) =>
              CachedAbsent(Nxt, k)

\* while a key is cached as absent, get, contains and the indexed read
\* report it absent and leave the handle as it is, whatever row the table
\* holds for it
AnswersAbsent ==
    \A k \in Keys : CachedAbsent(Cur, k) =>
        \A s \in {Cur} \cup {Behind(Cur, k, text) : text \in JsonTexts} :
            /\ Get(s, k, PyInt(2)) = Ok(s, PyInt(2))
            /\ Contains(s, k) = Ok(s, PyFalse)
            /\ GetItem(s, k) = Raise(s, "KeyError")

\* load_all and the calls that run it first
LoadAllCalls == {"load_all", "to_dict", "items", "values"}

\* the calls after which a key need no longer be cached as absent
Touching(ops) ==
    \A k \in Keys :
          (CachedAbsent(Cur, k) /\ ~CachedAbsent(Nxt, k)) =>
              last'.op \in ops

\* C37 as stated: a lookup that found no row, a delete or a pop leaves K
\* cached as absent; get, contains and the indexed read then report K absent
\* without reading the table; and K stays cached as absent until setitem,
\* update, setdefault, batch_update, refresh, clear or a load_all that runs,
\* called directly or by to_dict, items or values.
C37_NegativeUntilListed ==
    /\ [][RecordsAbsent]_vars
    /\ []AnswersAbsent
    /\ [][Touching({"setitem", "update", "setdefault", "batch_update",
                   "refresh", "clear"} \cup LoadAllCalls)]_vars

\* C37: the same, with batch_delete among the calls that end it.
C37_NegativeCaching ==
    /\ [][RecordsAbsent]_vars
    /\ []AnswersAbsent
    /\ [][Touching({"setitem", "update", "setdefault", "batch_update",
                   "refresh", "clear", "batch_delete"} \cup LoadAllCalls)]_vars

\* key a is cached as absent, the table holds a row for it, and a get of it
\* has just returned
C37_Witness ==
    /\ CachedAbsent(Cur, "a") /\ "a" \in DOMAIN rows /\ rows["a"] = "1"
    /\ last.op = "get" /\ last.key = "a" /\ last.exc = NoExc

\* the calls that hand SQL to the connection
SqlCalls ==
    {"execute", "execute_many", "fetch_one", "fetch_all", "sql_insert",
     "sql_update", "sql_delete", "upsert", "query"}

\* a call of SqlCalls leaves the cache and the all-loaded flag as they were
SqlKeepsCache ==
    last'.op \in SqlCalls =>
        data' = data /\ cached_keys' = cached_keys /\ all_loaded' = all_loaded

\* handle s over another content of the table
Over(s, table) == [s EXCEPT !.rows = table, !.disk = table]

\* the contents the table may have got behind the handle's back
OtherTables ==
    {EmptyDict} \cup {DictSet(rows, k, text) : k \in Keys, text \in JsonTexts}
        \cup {DictDel(rows, k) : k \in Keys}

\* with the flag set, load_all, values, items and to_dict answer from the
\* cache alone and leave the handle as it is
AnswersFromCache ==
    all_loaded =>
        \A s \in {Cur} \cup {Over(Cur, table) : table \in OtherTables} :
            /\ LoadAll(s) = Ok(s, PyNone)
            /\ ToDict(s) = Ok(s, Copy(data))
            /\ Items(s) = Ok(s, Copy(data))
            /\ Values(s) = Ok(s, ValuesOf(data))

\* only refresh and clear reset the flag
FlagReset == (all_loaded /\ ~all_loaded') => last'.op \in {"refresh", "clear"}

UpdateItems ==
    {mapping \o kwargs : mapping \in Mappings,
                         kwargs \in {kw \in Mappings : Len(kw) <= 1}}

\* update(items) on handle s has failed at element i and left handle t:
\* the elements before i are in table and cache as their sets left them, and
\* no element after i has been set
StoppedAt(s, items, i, t) ==
    LET earlier == Update(s, SubSeq(items, 1, i - 1))
    IN  /\ earlier.exc = NoExc
        /\ SetItem(earlier.s, items[i][1], items[i][2], TRUE).exc # NoExc
        /\ t.rows = earlier.s.rows
        /\ \A j \in 1..(i - 1) :
               /\ items[j][1] \in DOMAIN t.data
               /\ t.data[items[j][1]] = earlier.s.data[items[j][1]]
        /\ \A j \in (i + 1)..Len(items) :
               items[j][1] \notin {items[n][1] : n \in 1..i} =>
                   /\ (items[j][1] \in DOMAIN t.data) = (items[j][1] \in DOMAIN s.data)
                   /\ (items[j][1] \in t.cached_keys) = (items[j][1] \in s.cached_keys)
                   /\ items[j][1] \in DOMAIN s.data =>
                          t.data[items[j][1]] = s.data[items[j][1]]

\* C39: an update that fails has stopped at some element: every earlier
\* element is in table and cache, no later element has been applied, and the
\* exception is the failing set's.
C39_UpdateStopsAtFailure ==
    [][\A items \in UpdateItems :
          (/\ last'.op = "update" /\ last'.exc # NoExc
           /\ Update(Cur, items).exc = last'.exc
           /\ Update(Cur, items).s = Nxt) =>
              \E i \in 1..Len(items) : StoppedAt(Cur, items, i, Nxt)]_vars

\* the calls that start with BEGIN IMMEDIATE
BeginCalls ==
    {"begin_transaction", "txn_enter", "batch_update", "batch_delete",
     "execute_many"}

\* C40: a call of BeginCalls made while a transaction is open raises the
\* engine's error, and table, cache and the open transaction with its
\* pending writes are as before the call.
C40_NestedBeginFails ==
    [][(in_txn /\ last'.op \in BeginCalls) =>
          /\ last'.exc = "SQLError"
          /\ in_txn'
          /\ rows' = rows /\ disk' = disk
          /\ data' = data /\ cached_keys' = cached_keys
          /\ all_loaded' = all_loaded]_vars

\* a transaction with a pending write is open and a batch_update has just
\* been refused
C40_Witness ==
    /\ in_txn /\ rows # disk
    /\ last.op = "batch_update" /\ last.exc = "SQLError"

\* every parameter set of the list is in table t: each key holds the text of
\* the last set that names it
AllIn(parameters_list, t) ==
    \A i \in 1..Len(parameters_list) :
        LET key == parameters_list[i][1]
        IN  /\ key \in DOMAIN t
            /\ \/ t[key] = parameters_list[i][2]
               \/ \E j \in (i + 1)..Len(parameters_list) :
                      parameters_list[j][1] = key

\* C33: execute_many either commits every parameter set and leaves no
\* transaction open, or raises and leaves the table as it was, rolled back,
\* with no transaction of its own left open: so it is for every parameter
\* list the call can be given in a reachable state, and so every step of
\* execute_many leaves the table.
C33_ExecuteManyAtomic ==
    /\ [](\A parameters_list \in ParameterLists :
            LET r == ExecuteMany(Cur, parameters_list)
            IN  IF r.exc = NoExc
                THEN /\ AllIn(parameters_list, r.s.rows)
                     /\ r.s.disk = r.s.rows /\ ~r.s.in_txn
                ELSE /\ r.s.rows = rows /\ r.s.disk = disk
                     /\ ~in_txn => ~r.s.in_txn)
    /\ [][last'.op = "execute_many" =>
              IF last'.exc = NoExc
              THEN disk' = rows' /\ ~in_txn'
              ELSE /\ rows' = rows /\ disk' = disk
                   /\ ~in_txn => ~in_txn']_vars

\* an execute_many has failed at a parameter set, outside any transaction of
\* the caller; the table is as committed and no transaction is open
C33_Witness ==
    /\ last.op = "execute_many" /\ last.exc = "BindingsError"
    /\ ~in_txn /\ rows = disk

\* the label of a result column: the alias of "expr AS alias" without its
\* quotes, otherwise the column's text as given; a string literal is one
\* value, whatever it holds
Label(col) ==
    LET e == Lexed(col)
    IN  IF Len(e) >= 3 /\ e[Len(e) - 1] \in {"AS", "as"}
        THEN <<NameOf(e[Len(e)])>> ELSE col

\* the labels of the rows a query of the auxiliary table returns
Labels(columns) ==
    IF columns = NoColumns THEN {<<c>> : c \in Range(aux.columns)}
    ELSE {Label(columns[i]) : i \in DOMAIN columns}

\* the call a step of query or query_with_pagination made, from its
\* arguments in last'
Queried(arg, op) ==
    IF op = "query"
    THEN Query(Cur, aux, arg.table_name, arg.columns, NoWhere, <<>>, arg.limit)
    ELSE QueryWithPagination(Cur, aux, arg.table_name, arg.columns, NoWhere,
                             <<>>, arg.limit, arg.offset)

QueryCalls == {"query", "query_with_pagination"}

\* C31: every row query and query_with_pagination return is a dict whose
\* keys are the labels of the result columns.
C31_RowsKeyedByLabel ==
    [][(last'.op \in QueryCalls /\ last'.exc = NoExc /\ "limit" \in DOMAIN last'.arg) =>
          LET r == Queried(last'.arg, last'.op)
          IN  \A i \in DOMAIN r.ret :
                  DOMAIN r.ret[i] = Labels(last'.arg.columns)]_vars

\* the row helper a step made, from its arguments in last'
Put(arg, op) ==
    IF op = "sql_insert" THEN SqlInsert(Cur, aux, arg.table_name, arg.data)
    ELSE UpsertInto(Cur, aux, arg.table_name, arg.data, arg.conflict_columns)

\* C34: sql_insert and upsert return the rowid of the row of the table that
\* holds the data's name afterwards, the row inserted or updated.
C34_ReturnsRowidOfRow ==
    [][(last'.op \in {"sql_insert", "upsert"} /\ last'.exc = NoExc
           /\ last'.arg.data[1][1] = "name" /\ "name" \in aux.unique) =>
          \E i \in DOMAIN aux'.rows :
              /\ aux'.rows[i].name = last'.arg.data[1][2]
              /\ Put(last'.arg, last'.op).ret = PyInt(aux'.rows[i].rowid)]_vars

\* the first n rows after the first k of a result; NoLimit: all of them
Page(result, n, k) ==
    LET skip == IF k = NoLimit THEN 0 ELSE k
        to == IF n = NoLimit \/ skip + n > Len(result) THEN Len(result)
              ELSE skip + n
    IN  SubSeq(result, skip + 1, to)

\* C35: query(limit=n) and query_with_pagination(limit=n, offset=k) return
\* the rows of the unlimited result after its first k, at most n of them.
C35_LimitAndOffset ==
    [][(last'.op \in QueryCalls /\ "limit" \in DOMAIN last'.arg) =>
          LET all == Queried([last'.arg EXCEPT !.limit = NoLimit,
                                               !.offset = NoLimit], last'.op)
              r == Queried(last'.arg, last'.op)
          IN  all.exc = NoExc =>
                  /\ r.exc = NoExc
                  /\ r.ret = Page(all.ret, last'.arg.limit, last'.arg.offset)]_vars

\* what a target is: a path or a sqlite:// or file:// URL, a postgresql:// or
\* postgres:// URL, or neither
KindOf(target) ==
    IF target.text = "" THEN "neither"
    ELSE IF ~target.url \/ Lower(target.scheme) \in {"sqlite", "file"}
    THEN "sqlite"
    ELSE IF Lower(target.scheme) \in {"postgresql", "postgres"}
    THEN "postgresql"
    ELSE "neither"

\* C32: NanaDB(target) opens the SQLite backend for a path and for a
\* sqlite:// or file:// URL, raises NotImplementedError for a postgresql://
\* or postgres:// URL and ValueError for an empty target or another scheme,
\* in both cases of error without opening a backend.
C32_BackendFromTarget ==
    [][\A target \in Targets :
          (last'.op = "NanaDB" /\ last'.key = target.text) =>
              /\ KindOf(target) = "sqlite" => last'.exc = NoExc /\ ~closed'
              /\ KindOf(target) = "postgresql" =>
                     last'.exc = "NotImplementedError" /\ Nxt = Cur
              /\ KindOf(target) = "neither" =>
                     last'.exc = "ValueError" /\ Nxt = Cur]_vars

====
